---- MODULE Spec2Model ----
(***************************************************************************)
(* Sentencing calculator of 64Dianmond/gufe_test: the SentencingCalculator *)
(* classes of src/1111, src/1112 and src/1124 (base sentence, two-tier     *)
(* factor adjustment, range conversion, legal-range clamp).                *)
(*                                                                         *)
(* Conventions of the model                                                *)
(*  - Python str: the sequence of its Unicode code points, so that         *)
(*    `a == b` is equality and `a in b` is contiguous-subsequence          *)
(*    containment.  The literal is given in the comment beside it.         *)
(*  - Python None / optional argument: <<>> is None, <<v>> is the value v. *)
(*  - Python float: an exact rational [n, d] in lowest terms with d > 0.   *)
(*    The code's binary floating point differs from it by rounding error   *)
(*    only; round(x, 2) and the format specs .2f / .0f are modelled as     *)
(*    rounding half-to-even of the exact value.                            *)
(*  - A raised exception: the result [raised |-> "KeyError"].              *)
(*  - One call per behaviour: Init draws the arguments, one action per     *)
(*    function applies it and stores what it returns.                      *)
(***************************************************************************)
EXTENDS Integers, Sequences, FiniteSets, TLC

VARIABLES
    call,   \* the function that was applied, "" before the call
    args,   \* the arguments of the call
    ret     \* what the call returned, <<>> before the call

vars == <<call, args, ret>>

-----------------------------------------------------------------------------
(* Python values *)

None == <<>>
Some(v) == <<v>>
IsNone(o) == o = <<>>
Val(o) == o[1]

RECURSIVE GCD(_, _)
GCD(a, b) == IF b = 0 THEN a ELSE GCD(b, a % b)

Abs(x) == IF x < 0 THEN -x ELSE x

\* the rational n/d (d # 0) in lowest terms with a positive denominator
Rat(n, d) ==
    LET g == GCD(Abs(n), Abs(d))
        s == IF d < 0 THEN -1 ELSE 1
    IN  [n |-> s * (n \div g), d |-> s * (d \div g)]

FromInt(i) == [n |-> i, d |-> 1]
RatMul(p, q) == Rat(p.n * q.n, p.d * q.d)
RatAdd(p, q) == Rat(p.n * q.d + q.n * p.d, p.d * q.d)
RatSub(p, q) == Rat(p.n * q.d - q.n * p.d, p.d * q.d)
RatLt(p, q) == p.n * q.d < q.n * p.d
RatLe(p, q) == p.n * q.d <= q.n * p.d

\* n/d (d > 0) rounded to the nearest integer, ties to the even one
RoundHalfEven(n, d) ==
    LET q == n \div d
        r == n % d
    IN  IF 2 * r < d THEN q
        ELSE IF 2 * r > d THEN q + 1
        ELSE IF q % 2 = 0 THEN q ELSE q + 1

\* round(x, 2) and f"{x:.2f}"
Round2(x) == Rat(RoundHalfEven(x.n * 100, x.d), 100)

\* f"{x:.0f}"
Round0(x) == RoundHalfEven(x.n, x.d)

\* the sequences over S of length at most n
SeqUpTo(S, n) == UNION {[1..k -> S] : k \in 0..n}

-----------------------------------------------------------------------------
(* Factor adjustment engine *)

\* factor.get("name") or factor.get("factor")
FactorName(factor) ==
    IF "name" \in DOMAIN factor /\ factor.name # ""
    THEN factor.name
    ELSE IF "factor" \in DOMAIN factor THEN factor.factor ELSE ""

\* the loop over layer1_factors: layer1_multiplier after the first k factors
RECURSIVE Layer1Multiplier(_, _)
Layer1Multiplier(layer1_factors, k) ==
    IF k = 0 THEN FromInt(1)
    ELSE RatMul(Layer1Multiplier(layer1_factors, k - 1), layer1_factors[k].ratio)

\* mutant: the Tier-2 ratios compounded instead of their percentages summed
RECURSIVE Layer2Adjustment_compounded(_, _)
Layer2Adjustment_compounded(layer2_factors, k) ==
    IF k = 0 THEN FromInt(0)
    ELSE RatSub(RatMul(RatAdd(FromInt(1), Layer2Adjustment_compounded(layer2_factors, k - 1)),
                       layer2_factors[k].ratio),
                FromInt(1))

\* the loop over layer2_factors: layer2_adjustment after the first k factors
RECURSIVE Layer2Adjustment(_, _)
Layer2Adjustment(layer2_factors, k) ==
    IF k = 0 THEN FromInt(0)
    ELSE RatAdd(Layer2Adjustment(layer2_factors, k - 1),
                RatSub(layer2_factors[k].ratio, FromInt(1)))

\* mutant: the Tier-1 entries in the reverse of the input order
Layer1Steps_reversed(layer1_factors, names) ==
    [i \in 1..Len(layer1_factors) |->
        [kind |-> "layer1", name |-> names[Len(layer1_factors) + 1 - i],
         ratio |-> layer1_factors[Len(layer1_factors) + 1 - i].ratio]]

\* steps.append(f"第一层面 - {name}: ×{ratio}") for each factor
Layer1Steps(layer1_factors, names) ==
    [i \in 1..Len(layer1_factors) |->
        [kind |-> "layer1", name |-> names[i],
         ratio |-> layer1_factors[i].ratio]]

\* steps.append(f"第二层面 - {name}: {'+' if adjustment > 0 else ''}{adjustment * 100:.0f}%")
Layer2Steps(layer2_factors, names) ==
    [i \in 1..Len(layer2_factors) |->
        LET adjustment == RatSub(layer2_factors[i].ratio, FromInt(1))
        IN  [kind |-> "layer2", name |-> names[i],
             sign |-> IF RatLt(FromInt(0), adjustment) THEN "+" ELSE "",
             pct |-> Round0(RatMul(adjustment, FromInt(100)))]]

\* name = factor["name"] (src/1111, src/1112) for each factor of the list
PlainNames(factors) == [i \in 1..Len(factors) |-> factors[i].name]

\* name = factor.get("name") or factor.get("factor") (src/1124) for each factor
FactorNames(factors) == [i \in 1..Len(factors) |-> FactorName(factors[i])]

\* mutant: an empty Tier-1 list multiplies by an empty product taken as 0
ApplyLayer1_zero(base_months, layer1_factors) ==
    IF layer1_factors # <<>>
    THEN RatMul(FromInt(base_months),
                Layer1Multiplier(layer1_factors, Len(layer1_factors)))
    ELSE FromInt(0)

\* Tier 1: current_months after `if layer1_factors: current_months = base_months * layer1_multiplier`
ApplyLayer1(base_months, layer1_factors) ==
    IF layer1_factors # <<>>
    THEN RatMul(FromInt(base_months),
                Layer1Multiplier(layer1_factors, Len(layer1_factors)))
    ELSE FromInt(base_months)

\* Tier 2: `if layer2_factors: current_months * (1.0 + layer2_adjustment) else current_months`
ApplyLayer2(current_months, layer2_factors) ==
    IF layer2_factors # <<>>
    THEN RatMul(current_months,
                RatAdd(FromInt(1), Layer2Adjustment(layer2_factors, Len(layer2_factors))))
    ELSE current_months

\* mutant: the floor left out
FloorOneMonth_absent(temp_final) == temp_final

\* `if temp_final < 1: temp_final = 1`
FloorOneMonth(temp_final) ==
    IF RatLt(temp_final, FromInt(1)) THEN FromInt(1) ELSE temp_final

\* src/1111/sentencing_calculator.py (the same code in src/1111/cal.py and,
\* but for the wording of the tier-2 subtotal, in src/1112/cal.py).
\* `unrounded` is the local final_months before round(): not returned by the
\* code, kept to state what the code computes.
calculate_layered_sentence(base_months, layer1_factors, layer2_factors) ==
    LET layer1_multiplier == Layer1Multiplier(layer1_factors, Len(layer1_factors))
        current_months == ApplyLayer1(base_months, layer1_factors)
        layer2_adjustment == Layer2Adjustment(layer2_factors, Len(layer2_factors))
        layer2_multiplier == RatAdd(FromInt(1), layer2_adjustment)
        final_months == ApplyLayer2(current_months, layer2_factors)
        steps ==
            <<[kind |-> "base", months |-> base_months]>>
            \o Layer1Steps(layer1_factors, PlainNames(layer1_factors))
            \o (IF layer1_factors # <<>>
                THEN <<[kind |-> "layer1_result", base |-> base_months,
                        multiplier |-> layer1_multiplier,
                        months |-> Round2(current_months)]>>
                ELSE <<>>)
            \o Layer2Steps(layer2_factors, PlainNames(layer2_factors))
            \o (IF layer2_factors # <<>>
                THEN <<[kind |-> "layer2_result", from |-> Round2(current_months),
                        multiplier |-> layer2_multiplier,
                        months |-> Round2(final_months)]>>
                ELSE <<>>)
    IN  [final_months |-> Round2(final_months),
         calculation_steps |-> steps,
         formula |-> [base |-> base_months, L1 |-> layer1_multiplier,
                      L2 |-> layer2_multiplier],
         unrounded |-> final_months]

\* src/1124/cal.py: the two tiers, then the 1-month floor.
\* `unrounded` is the local temp_final before the floor (not returned).
calculate_layered_sentence_with_constraints(base_months, layer1_factors, layer2_factors) ==
    LET current_months == ApplyLayer1(base_months, layer1_factors)
        layer2_adjustment == Layer2Adjustment(layer2_factors, Len(layer2_factors))
        computed == ApplyLayer2(current_months, layer2_factors)
        temp_final == FloorOneMonth(computed)
        steps ==
            <<[kind |-> "base", months |-> base_months]>>
            \o Layer1Steps(layer1_factors, FactorNames(layer1_factors))
            \o (IF layer1_factors # <<>>
                THEN <<[kind |-> "layer1_result", months |-> Round2(current_months)]>>
                ELSE <<>>)
            \o Layer2Steps(layer2_factors, FactorNames(layer2_factors))
            \o (IF layer2_factors # <<>>
                THEN <<[kind |-> "layer2_result", months |-> Round2(computed)]>>
                ELSE <<>>)
            \o (IF RatLt(computed, FromInt(1))
                THEN <<[kind |-> "clamp", months |-> Round2(computed)],
                       [kind |-> "clamp_to", months |-> 1]>>
                ELSE <<>>)
    IN  [final_months |-> Round2(temp_final),
         base_months |-> base_months,
         calculation_steps |-> steps,
         constrained |->
             temp_final # RatMul(current_months, RatAdd(FromInt(1), layer2_adjustment)),
         unrounded |-> computed]

\* src/1124/故意伤害/cal_gysh.py: as src/1124/cal.py, with a note on the
\* number of victims after the base entry
calculate_layered_sentence_with_constraints_gysh(base_months, layer1_factors, layer2_factors, victim_count) ==
    LET current_months == ApplyLayer1(base_months, layer1_factors)
        layer2_adjustment ==
            IF layer2_factors # <<>>
            THEN Layer2Adjustment(layer2_factors, Len(layer2_factors))
            ELSE FromInt(0)
        computed == ApplyLayer2(current_months, layer2_factors)
        temp_final == FloorOneMonth(computed)
        steps ==
            <<[kind |-> "base", months |-> base_months]>>
            \o (IF ~IsNone(victim_count) /\ Val(victim_count) # 0 /\ Val(victim_count) > 1
                THEN <<[kind |-> "victims", count |-> Val(victim_count)]>>
                ELSE <<>>)
            \o (IF layer1_factors # <<>>
                THEN Layer1Steps(layer1_factors, FactorNames(layer1_factors))
                     \o <<[kind |-> "layer1_result", months |-> Round2(current_months)]>>
                ELSE <<>>)
            \o (IF layer2_factors # <<>>
                THEN Layer2Steps(layer2_factors, FactorNames(layer2_factors))
                     \o <<[kind |-> "layer2_result", months |-> Round2(computed)]>>
                ELSE <<>>)
            \o (IF RatLt(computed, FromInt(1))
                THEN <<[kind |-> "clamp", months |-> Round2(computed)],
                       [kind |-> "clamp_to", months |-> 1]>>
                ELSE <<>>)
    IN  [final_months |-> Round2(temp_final),
         base_months |-> base_months,
         calculation_steps |-> steps,
         constrained |->
             temp_final # RatMul(current_months, RatAdd(FromInt(1), layer2_adjustment)),
         unrounded |-> computed]

\* src/1124/诈骗/cal_zp.py: one clamp entry, and `constrained` is the literal False
calculate_layered_sentence_with_constraints_zp(base_months, layer1_factors, layer2_factors) ==
    LET current_months == ApplyLayer1(base_months, layer1_factors)
        computed == ApplyLayer2(current_months, layer2_factors)
        temp_final == FloorOneMonth(computed)
        steps ==
            <<[kind |-> "base", months |-> base_months]>>
            \o Layer1Steps(layer1_factors, FactorNames(layer1_factors))
            \o (IF layer1_factors # <<>>
                THEN <<[kind |-> "layer1_result", months |-> Round2(current_months)]>>
                ELSE <<>>)
            \o Layer2Steps(layer2_factors, FactorNames(layer2_factors))
            \o (IF layer2_factors # <<>>
                THEN <<[kind |-> "layer2_result", months |-> Round2(computed)]>>
                ELSE <<>>)
            \o (IF RatLt(computed, FromInt(1))
                THEN <<[kind |-> "clamp", months |-> Round2(computed), to |-> 1]>>
                ELSE <<>>)
    IN  [final_months |-> Round2(temp_final),
         base_months |-> base_months,
         calculation_steps |-> steps,
         constrained |-> FALSE,
         unrounded |-> computed]

-----------------------------------------------------------------------------
(* The adjustment call: arguments and actions *)

MaxLayer1 == 2      \* longest Tier-1 list
MaxLayer2 == 3      \* longest Tier-2 list

\* base months a caller passes: 0 (src/1111/cal.py returns it for fraud below
\* 3000), the floor 1, and bases of the __main__ examples
BaseMonths == {0, 1, 12, 100}

\* Tier-1 factors of the __main__ example: 未成年人 0.5, 从犯 0.8
Layer1Pool == {[name |-> "weichengnianren", ratio |-> Rat(50, 100)],
               [name |-> "congfan", ratio |-> Rat(80, 100)]}

\* Tier-2 factors: 累犯 1.3 and 自首 0.9 of the __main__ example; 退赃退赔 0.7;
\* 自首（主动投案） -35%, i.e. 0.65, of LAYER2_FACTORS in src/1112/cal.py
Layer2Pool == {[name |-> "leifan", ratio |-> Rat(130, 100)],
               [name |-> "zishou", ratio |-> Rat(90, 100)],
               [name |-> "tuizang", ratio |-> Rat(70, 100)],
               [name |-> "zishou_zhudong", ratio |-> Rat(65, 100)]}

\* victim_count of the cal_gysh.py variant
VictimCounts == {None, Some(1), Some(2)}

AdjustArgs ==
    [base_months : BaseMonths,
     layer1_factors : SeqUpTo(Layer1Pool, MaxLayer1),
     layer2_factors : SeqUpTo(Layer2Pool, MaxLayer2)]

InitAdjust == call = "" /\ args \in AdjustArgs /\ ret = <<>>

Call_calculate_layered_sentence ==
    /\ call = ""
    /\ call' = "calculate_layered_sentence"
    /\ ret' = calculate_layered_sentence(args.base_months, args.layer1_factors,
                                         args.layer2_factors)
    /\ UNCHANGED args

Call_calculate_layered_sentence_with_constraints ==
    /\ call = ""
    /\ call' = "calculate_layered_sentence_with_constraints"
    /\ ret' = calculate_layered_sentence_with_constraints(
                  args.base_months, args.layer1_factors, args.layer2_factors)
    /\ UNCHANGED args

Call_calculate_layered_sentence_with_constraints_gysh ==
    /\ call = ""
    /\ \E victim_count \in VictimCounts :
          /\ args' = [base_months |-> args.base_months,
                      layer1_factors |-> args.layer1_factors,
                      layer2_factors |-> args.layer2_factors,
                      victim_count |-> victim_count]
          /\ ret' = calculate_layered_sentence_with_constraints_gysh(
                        args.base_months, args.layer1_factors, args.layer2_factors,
                        victim_count)
    /\ call' = "calculate_layered_sentence_with_constraints_gysh"

Call_calculate_layered_sentence_with_constraints_zp ==
    /\ call = ""
    /\ call' = "calculate_layered_sentence_with_constraints_zp"
    /\ ret' = calculate_layered_sentence_with_constraints_zp(
                  args.base_months, args.layer1_factors, args.layer2_factors)
    /\ UNCHANGED args

NextAdjust ==
    \/ Call_calculate_layered_sentence
    \/ Call_calculate_layered_sentence_with_constraints
    \/ Call_calculate_layered_sentence_with_constraints_gysh
    \/ Call_calculate_layered_sentence_with_constraints_zp

SpecAdjust == InitAdjust /\ [][NextAdjust]_vars

-----------------------------------------------------------------------------
(* Properties of the adjustment engine *)

WithConstraints == {"calculate_layered_sentence_with_constraints",
                    "calculate_layered_sentence_with_constraints_gysh",
                    "calculate_layered_sentence_with_constraints_zp"}
AdjustCalls == {"calculate_layered_sentence"} \cup WithConstraints

Ratios(factors) == [i \in 1..Len(factors) |-> factors[i].ratio]

RECURSIVE ProductOfRatios(_)
ProductOfRatios(factors) ==
    IF factors = <<>> THEN FromInt(1)
    ELSE RatMul(Head(factors).ratio, ProductOfRatios(Tail(factors)))

RECURSIVE SumOfPercentages(_)
SumOfPercentages(factors) ==
    IF factors = <<>> THEN FromInt(0)
    ELSE RatAdd(RatSub(Head(factors).ratio, FromInt(1)), SumOfPercentages(Tail(factors)))

\* base_months x (product of the Tier-1 ratios) x (1 + sum of (ratio - 1) over Tier 2)
TwoTierValue(a) ==
    RatMul(RatMul(FromInt(a.base_months), ProductOfRatios(a.layer1_factors)),
           RatAdd(FromInt(1), SumOfPercentages(a.layer2_factors)))

ScenarioB(a) ==
    /\ a.base_months = 100
    /\ Ratios(a.layer1_factors) = <<Rat(50, 100), Rat(80, 100)>>
    /\ Ratios(a.layer2_factors) = <<Rat(130, 100), Rat(90, 100)>>

KindsOf(steps) == [i \in 1..Len(steps) |-> steps[i].kind]
ClampKinds == {"clamp", "clamp_to"}
HasClamp(steps) == \E i \in 1..Len(steps) : steps[i].kind \in ClampKinds

\* C1: in every variant the value before the floor is
\* base_months x (product of Tier-1 ratios) x (1 + sum of Tier-2 (ratio - 1));
\* Tier-2 ratios 1.3 and 0.7 cancel, and base 100 with Tier 1 [0.5, 0.8] and
\* Tier 2 [1.3, 0.9] gives final_months 48.
C1_TwoTierFormula ==
    call \in AdjustCalls =>
        /\ ret.unrounded = TwoTierValue(args)
        /\ Ratios(args.layer2_factors) = <<Rat(130, 100), Rat(70, 100)>>
              => ret.unrounded = ApplyLayer1(args.base_months, args.layer1_factors)
        /\ ScenarioB(args) => ret.final_months = FromInt(48)

C1_Witness ==
    /\ call = "calculate_layered_sentence_with_constraints"
    /\ ScenarioB(args)
    /\ ret.final_months = FromInt(48)

\* C2: calculate_layered_sentence_with_constraints returns final_months >= 1;
\* a computed value below 1 is replaced by exactly 1 and the clamp is the end
\* of calculation_steps; a computed value >= 1 adds no clamp entry.
C2_FloorAndTrace ==
    call \in WithConstraints =>
        LET steps == ret.calculation_steps
            n == Len(steps)
        IN  /\ RatLe(FromInt(1), ret.final_months)
            /\ RatLt(ret.unrounded, FromInt(1)) =>
                  /\ ret.final_months = FromInt(1)
                  /\ IF call = "calculate_layered_sentence_with_constraints_zp"
                     THEN /\ steps[n].kind = "clamp"
                          /\ ~HasClamp(SubSeq(steps, 1, n - 1))
                     ELSE /\ n >= 2
                          /\ steps[n - 1].kind = "clamp" /\ steps[n].kind = "clamp_to"
                          /\ ~HasClamp(SubSeq(steps, 1, n - 2))
            /\ ~RatLt(ret.unrounded, FromInt(1)) =>
                  /\ ~HasClamp(steps)
                  /\ ret.final_months = Round2(ret.unrounded)

\* a net Tier-2 adjustment of -105% on base 12
C2_Witness ==
    /\ call = "calculate_layered_sentence_with_constraints"
    /\ args.base_months = 12
    /\ args.layer1_factors = <<>>
    /\ Ratios(args.layer2_factors) = <<Rat(65, 100), Rat(65, 100), Rat(65, 100)>>
    /\ ret.final_months = FromInt(1)
    /\ HasClamp(ret.calculation_steps)

\* C3 (as claimed): calculate_layered_sentence returns final_months >= 1 for
\* all inputs.
C3_FloorInvariant ==
    call = "calculate_layered_sentence" => RatLe(FromInt(1), ret.final_months)

EmptyLists(a) == a.layer1_factors = <<>> /\ a.layer2_factors = <<>>
BaseEntry(a) == [kind |-> "base", months |-> a.base_months]

\* the cal_gysh.py variant called with victim_count > 1
ManyVictims ==
    /\ call = "calculate_layered_sentence_with_constraints_gysh"
    /\ ~IsNone(args.victim_count) /\ Val(args.victim_count) > 1

\* C4 (as claimed): with both lists empty final_months = base_months for every
\* base_months >= 0 and calculation_steps is the base entry alone, in
\* calculate_layered_sentence and in calculate_layered_sentence_with_constraints
\* (victim_count, which the claim does not speak of, left out).
C4_IdentityAllBases ==
    (call \in AdjustCalls /\ EmptyLists(args) /\ ~ManyVictims) =>
        /\ ret.final_months = FromInt(args.base_months)
        /\ ret.calculation_steps = <<BaseEntry(args)>>

\* C4 (amended): with both lists empty, final_months = base_months and the
\* trace is the base entry alone for every base_months >= 1, and in
\* calculate_layered_sentence for base_months = 0 too (the cal_gysh.py variant
\* adds its victim-count note after the base entry when victim_count > 1);
\* calculate_layered_sentence_with_constraints with base_months = 0 returns 1
\* and records the clamp.
C4_Identity ==
    (call \in AdjustCalls /\ EmptyLists(args)) =>
        IF args.base_months >= 1 \/ call = "calculate_layered_sentence"
        THEN /\ ret.final_months = FromInt(args.base_months)
             /\ ret.calculation_steps =
                   IF ManyVictims
                   THEN <<BaseEntry(args),
                          [kind |-> "victims", count |-> Val(args.victim_count)]>>
                   ELSE <<BaseEntry(args)>>
        ELSE /\ ret.final_months = FromInt(1)
             /\ HasClamp(ret.calculation_steps)

C4_Witness ==
    /\ call = "calculate_layered_sentence_with_constraints"
    /\ EmptyLists(args)
    /\ args.base_months = 12
    /\ ret.final_months = FromInt(12)
    /\ ret.calculation_steps = <<BaseEntry(args)>>

-----------------------------------------------------------------------------
(* String literals of the source, as code-point sequences *)

CrimeTheft == <<30423, 31363, 32618>>    \* "盗窃罪"
CrimeFraud == <<35784, 39575, 32618>>    \* "诈骗罪"
CrimeEmbezzlement == <<32844, 21153, 20405, 21344, 32618>>    \* "职务侵占罪"
CrimeInjury == <<25925, 24847, 20260, 23475, 32618>>    \* "故意伤害罪"
CrimeRobbery == <<25250, 21163, 32618>>    \* "抢劫罪"
WordTheft == <<30423, 31363>>    \* "盗窃"
WordFraud == <<35784, 39575>>    \* "诈骗"
WordInjury == <<25925, 24847, 20260, 23475>>    \* "故意伤害"
InjuryMinor == <<36731, 20260>>    \* "轻伤"
InjurySerious == <<37325, 20260>>    \* "重伤"
InjurySlight == <<36731, 24494, 20260>>    \* "轻微伤"
InjuryMinor1 == <<36731, 20260, 19968, 32423>>    \* "轻伤一级"
InjuryMinor2 == <<36731, 20260, 20108, 32423>>    \* "轻伤二级"
InjurySerious1 == <<37325, 20260, 19968, 32423>>    \* "重伤一级"
InjurySerious2 == <<37325, 20260, 20108, 32423>>    \* "重伤二级"
InjuryCausedDeath == <<33268, 20154, 27515, 20129>>    \* "致人死亡"
InjuryDeath == <<27515, 20129>>    \* "死亡"
KeyDefault == <<100, 101, 102, 97, 117, 108, 116>>    \* "default"
KeyCitiesToProvinces == <<99, 105, 116, 105, 101, 115, 95, 116, 111, 95, 112, 114, 111, 118, 105, 110, 99, 101, 115>>    \* "cities_to_provinces"
RegionBeijing == <<21271, 20140>>    \* "北京"
RegionShenzhen == <<28145, 22323>>    \* "深圳"
RegionJiangmen == <<27743, 38376>>    \* "江门"
RegionHaikou == <<28023, 21475>>    \* "海口"
RegionMars == <<28779, 26143>>    \* "火星"
RegionGuangdongShenzhen == <<24191, 19996, 30465, 28145, 22323, 24066>>    \* "广东省深圳市"

\* `s in r` for two str
IsSubstring(s, r) ==
    \E i \in 0..(Len(r) - Len(s)) : SubSeq(r, i + 1, i + Len(s)) = s

\* a returned value, and a raised exception
Return(v) == [raised |-> "", value |-> v]
Raise(e) == [raised |-> e]

Min(a, b) == IF a <= b THEN a ELSE b
Max(a, b) == IF a >= b THEN a ELSE b

-----------------------------------------------------------------------------
(* Jurisdiction tables.  A dict is the sequence of its items in declaration *)
(* order: [key, theft, fraud] for a region, [key, cities] for the            *)
(* "cities_to_provinces" item, whose value has no "theft" / "fraud" key.     *)

\* src/1124/cal.py
REGIONAL_STANDARDS_cities == <<
  <<<<27743, 38376>>, <<24191, 19996>>>>,  \* 江门 -> 广东
  <<<<28145, 22323>>, <<24191, 19996>>>>,  \* 深圳 -> 广东
  <<<<24191, 24030>>, <<24191, 19996>>>>,  \* 广州 -> 广东
  <<<<29664, 28023>>, <<24191, 19996>>>>,  \* 珠海 -> 广东
  <<<<20315, 23665>>, <<24191, 19996>>>>,  \* 佛山 -> 广东
  <<<<19996, 33694>>, <<24191, 19996>>>>,  \* 东莞 -> 广东
  <<<<20013, 23665>>, <<24191, 19996>>>>,  \* 中山 -> 广东
  <<<<26477, 24030>>, <<27993, 27743>>>>,  \* 杭州 -> 浙江
  <<<<23425, 27874>>, <<27993, 27743>>>>,  \* 宁波 -> 浙江
  <<<<28201, 24030>>, <<27993, 27743>>>>,  \* 温州 -> 浙江
  <<<<22025, 20852>>, <<27993, 27743>>>>,  \* 嘉兴 -> 浙江
  <<<<32461, 20852>>, <<27993, 27743>>>>,  \* 绍兴 -> 浙江
  <<<<21488, 24030>>, <<27993, 27743>>>>,  \* 台州 -> 浙江
  <<<<20041, 20044>>, <<27993, 27743>>>>,  \* 义乌 -> 浙江
  <<<<21335, 20140>>, <<27743, 33487>>>>,  \* 南京 -> 江苏
  <<<<33487, 24030>>, <<27743, 33487>>>>,  \* 苏州 -> 江苏
  <<<<26080, 38177>>, <<27743, 33487>>>>,  \* 无锡 -> 江苏
  <<<<24120, 24030>>, <<27743, 33487>>>>,  \* 常州 -> 江苏
  <<<<24464, 24030>>, <<27743, 33487>>>>,  \* 徐州 -> 江苏
  <<<<27982, 21335>>, <<23665, 19996>>>>,  \* 济南 -> 山东
  <<<<38738, 23707>>, <<23665, 19996>>>>,  \* 青岛 -> 山东
  <<<<28895, 21488>>, <<23665, 19996>>>>,  \* 烟台 -> 山东
  <<<<28493, 22346>>, <<23665, 19996>>>>,  \* 潍坊 -> 山东
  <<<<22823, 36830>>, <<36797, 23425>>>>,  \* 大连 -> 辽宁
  <<<<27784, 38451>>, <<36797, 23425>>>>,  \* 沈阳 -> 辽宁
  <<<<21704, 23572, 28392>>, <<40657, 40857, 27743>>>>,  \* 哈尔滨 -> 黑龙江
  <<<<38271, 26149>>, <<21513, 26519>>>>,  \* 长春 -> 吉林
  <<<<25104, 37117>>, <<22235, 24029>>>>,  \* 成都 -> 四川
  <<<<35199, 23433>>, <<38485, 35199>>>>,  \* 西安 -> 陕西
  <<<<27494, 27721>>, <<28246, 21271>>>>,  \* 武汉 -> 湖北
  <<<<38271, 27801>>, <<28246, 21335>>>>,  \* 长沙 -> 湖南
  <<<<31119, 24030>>, <<31119, 24314>>>>,  \* 福州 -> 福建
  <<<<21414, 38376>>, <<31119, 24314>>>>,  \* 厦门 -> 福建
  <<<<36149, 38451>>, <<36149, 24030>>>>,  \* 贵阳 -> 贵州
  <<<<26118, 26126>>, <<20113, 21335>>>>,  \* 昆明 -> 云南
  <<<<21335, 23425>>, <<24191, 35199>>>>,  \* 南宁 -> 广西
  <<<<30707, 23478, 24196>>, <<27827, 21271>>>>,  \* 石家庄 -> 河北
  <<<<22826, 21407>>, <<23665, 35199>>>>,  \* 太原 -> 山西
  <<<<21335, 26124>>, <<27743, 35199>>>>,  \* 南昌 -> 江西
  <<<<21512, 32933>>, <<23433, 24509>>>>,  \* 合肥 -> 安徽
  <<<<37073, 24030>>, <<27827, 21335>>>>,  \* 郑州 -> 河南
  <<<<28023, 21475>>, <<28023, 21335>>>>,  \* 海口 -> 海南
  <<<<20044, 40065, 26408, 40784>>, <<26032, 30086>>>>,  \* 乌鲁木齐 -> 新疆
  <<<<21628, 21644, 28009, 29305>>, <<20869, 33945, 21476>>>>,  \* 呼和浩特 -> 内蒙古
  <<<<38134, 24029>>, <<23425, 22799>>>>,  \* 银川 -> 宁夏
  <<<<35199, 23425>>, <<38738, 28023>>>>,  \* 西宁 -> 青海
  <<<<25289, 33832>>, <<35199, 34255>>>>,  \* 拉萨 -> 西藏
  <<<<20848, 24030>>, <<29976, 32899>>>>  \* 兰州 -> 甘肃
>>

REGIONAL_STANDARDS == <<
  [key |-> <<100, 101, 102, 97, 117, 108, 116>>,  \* default
   theft |-> [large |-> 1000, huge |-> 30000, especially_huge |-> 300000],
   fraud |-> [large |-> 3000, huge |-> 30000, especially_huge |-> 500000]],
  [key |-> <<21271, 20140>>,  \* 北京
   theft |-> [large |-> 2000, huge |-> 60000, especially_huge |-> 400000],
   fraud |-> [large |-> 5000, huge |-> 100000, especially_huge |-> 500000]],
  [key |-> <<19978, 28023>>,  \* 上海
   theft |-> [large |-> 6000, huge |-> 100000, especially_huge |-> 500000],
   fraud |-> [large |-> 6000, huge |-> 100000, especially_huge |-> 500000]],
  [key |-> <<24191, 19996>>,  \* 广东
   theft |-> [large |-> 3000, huge |-> 100000, especially_huge |-> 500000],
   fraud |-> [large |-> 6000, huge |-> 100000, especially_huge |-> 500000]],
  [key |-> <<24800, 24030>>,  \* 惠州
   theft |-> [large |-> 2000, huge |-> 60000, especially_huge |-> 400000],
   fraud |-> [large |-> 4000, huge |-> 60000, especially_huge |-> 500000]],
  [key |-> <<27743, 38376>>,  \* 江门
   theft |-> [large |-> 2000, huge |-> 60000, especially_huge |-> 400000],
   fraud |-> [large |-> 4000, huge |-> 60000, especially_huge |-> 500000]],
  [key |-> <<27733, 22836>>,  \* 汕头
   theft |-> [large |-> 2000, huge |-> 60000, especially_huge |-> 400000],
   fraud |-> [large |-> 4000, huge |-> 60000, especially_huge |-> 500000]],
  [key |-> <<27743, 33487>>,  \* 江苏
   theft |-> [large |-> 2000, huge |-> 50000, especially_huge |-> 400000],
   fraud |-> [large |-> 6000, huge |-> 100000, especially_huge |-> 500000]],
  [key |-> <<27993, 27743>>,  \* 浙江
   theft |-> [large |-> 3000, huge |-> 80000, especially_huge |-> 400000],
   fraud |-> [large |-> 6000, huge |-> 100000, especially_huge |-> 500000]],
  [key |-> <<23665, 19996>>,  \* 山东
   theft |-> [large |-> 2000, huge |-> 60000, especially_huge |-> 400000],
   fraud |-> [large |-> 6000, huge |-> 80000, especially_huge |-> 500000]],
  [key |-> <<22825, 27941>>,  \* 天津
   theft |-> [large |-> 1000, huge |-> 30000, especially_huge |-> 300000],
   fraud |-> [large |-> 5000, huge |-> 50000, especially_huge |-> 500000]],
  [key |-> <<37325, 24198>>,  \* 重庆
   theft |-> [large |-> 2000, huge |-> 60000, especially_huge |-> 400000],
   fraud |-> [large |-> 5000, huge |-> 70000, especially_huge |-> 500000]],
  [key |-> <<36149, 24030>>,  \* 贵州
   theft |-> [large |-> 1000, huge |-> 30000, especially_huge |-> 300000],
   fraud |-> [large |-> 3000, huge |-> 50000, especially_huge |-> 500000]],
  [key |-> <<27827, 21335>>,  \* 河南
   theft |-> [large |-> 2000, huge |-> 50000, especially_huge |-> 400000],
   fraud |-> [large |-> 5000, huge |-> 50000, especially_huge |-> 500000]],
  [key |-> <<27827, 21271>>,  \* 河北
   theft |-> [large |-> 2000, huge |-> 60000, especially_huge |-> 400000],
   fraud |-> [large |-> 5000, huge |-> 60000, especially_huge |-> 500000]],
  [key |-> <<36797, 23425>>,  \* 辽宁
   theft |-> [large |-> 2000, huge |-> 70000, especially_huge |-> 400000],
   fraud |-> [large |-> 6000, huge |-> 60000, especially_huge |-> 500000]],
  [key |-> <<22235, 24029>>,  \* 四川
   theft |-> [large |-> 1600, huge |-> 50000, especially_huge |-> 300000],
   fraud |-> [large |-> 5000, huge |-> 50000, especially_huge |-> 500000]],
  [key |-> <<23433, 24509>>,  \* 安徽
   theft |-> [large |-> 2000, huge |-> 50000, especially_huge |-> 400000],
   fraud |-> [large |-> 5000, huge |-> 50000, especially_huge |-> 500000]],
  [key |-> <<38485, 35199>>,  \* 陕西
   theft |-> [large |-> 1000, huge |-> 30000, especially_huge |-> 300000],
   fraud |-> [large |-> 5000, huge |-> 50000, especially_huge |-> 500000]],
  [key |-> <<23665, 35199>>,  \* 山西
   theft |-> [large |-> 1000, huge |-> 30000, especially_huge |-> 300000],
   fraud |-> [large |-> 5000, huge |-> 80000, especially_huge |-> 500000]],
  [key |-> <<28246, 21335>>,  \* 湖南
   theft |-> [large |-> 2000, huge |-> 50000, especially_huge |-> 400000],
   fraud |-> [large |-> 5000, huge |-> 50000, especially_huge |-> 500000]],
  [key |-> <<28246, 21271>>,  \* 湖北
   theft |-> [large |-> 2000, huge |-> 50000, especially_huge |-> 500000],
   fraud |-> [large |-> 5000, huge |-> 50000, especially_huge |-> 500000]],
  [key |-> <<31119, 24314>>,  \* 福建
   theft |-> [large |-> 3000, huge |-> 60000, especially_huge |-> 300000],
   fraud |-> [large |-> 5000, huge |-> 100000, especially_huge |-> 500000]],
  [key |-> <<20113, 21335>>,  \* 云南
   theft |-> [large |-> 1500, huge |-> 40000, especially_huge |-> 350000],
   fraud |-> [large |-> 5000, huge |-> 50000, especially_huge |-> 500000]],
  [key |-> <<24191, 35199>>,  \* 广西
   theft |-> [large |-> 1500, huge |-> 40000, especially_huge |-> 400000],
   fraud |-> [large |-> 5000, huge |-> 50000, especially_huge |-> 500000]],
  [key |-> <<27743, 35199>>,  \* 江西
   theft |-> [large |-> 1500, huge |-> 50000, especially_huge |-> 400000],
   fraud |-> [large |-> 5000, huge |-> 50000, especially_huge |-> 500000]],
  [key |-> <<21513, 26519>>,  \* 吉林
   theft |-> [large |-> 2000, huge |-> 30000, especially_huge |-> 300000],
   fraud |-> [large |-> 5000, huge |-> 50000, especially_huge |-> 500000]],
  [key |-> <<40657, 40857, 27743>>,  \* 黑龙江
   theft |-> [large |-> 1500, huge |-> 50000, especially_huge |-> 350000],
   fraud |-> [large |-> 5000, huge |-> 50000, especially_huge |-> 500000]],
  [key |-> <<28023, 21335>>,  \* 海南
   theft |-> [large |-> 1500, huge |-> 15000, especially_huge |-> 70000],
   fraud |-> [large |-> 5000, huge |-> 50000, especially_huge |-> 500000]],
  [key |-> <<29976, 32899>>,  \* 甘肃
   theft |-> [large |-> 2000, huge |-> 60000, especially_huge |-> 400000],
   fraud |-> [large |-> 3000, huge |-> 30000, especially_huge |-> 500000]],
  [key |-> <<38738, 28023>>,  \* 青海
   theft |-> [large |-> 2000, huge |-> 30000, especially_huge |-> 300000],
   fraud |-> [large |-> 3000, huge |-> 30000, especially_huge |-> 500000]],
  [key |-> <<20869, 33945, 21476>>,  \* 内蒙古
   theft |-> [large |-> 1600, huge |-> 30000, especially_huge |-> 300000],
   fraud |-> [large |-> 5000, huge |-> 50000, especially_huge |-> 500000]],
  [key |-> <<23425, 22799>>,  \* 宁夏
   theft |-> [large |-> 1500, huge |-> 30000, especially_huge |-> 300000],
   fraud |-> [large |-> 3000, huge |-> 30000, especially_huge |-> 500000]],
  [key |-> <<35199, 34255>>,  \* 西藏
   theft |-> [large |-> 2000, huge |-> 50000, especially_huge |-> 400000],
   fraud |-> [large |-> 6000, huge |-> 50000, especially_huge |-> 500000]],
  [key |-> <<26032, 30086>>,  \* 新疆
   theft |-> [large |-> 1000, huge |-> 30000, especially_huge |-> 300000],
   fraud |-> [large |-> 3000, huge |-> 50000, especially_huge |-> 500000]],
  [key |-> <<99, 105, 116, 105, 101, 115, 95, 116, 111, 95, 112, 114, 111, 118, 105, 110, 99, 101, 115>>, cities |-> REGIONAL_STANDARDS_cities]  \* "cities_to_provinces"
>>

\* src/1111/sentencing_calculator.py
REGIONAL_STANDARDS_1111_cities == <<
  <<<<27743, 38376>>, <<24191, 19996>>>>,  \* 江门 -> 广东
  <<<<28145, 22323>>, <<24191, 19996>>>>,  \* 深圳 -> 广东
  <<<<24191, 24030>>, <<24191, 19996>>>>,  \* 广州 -> 广东
  <<<<29664, 28023>>, <<24191, 19996>>>>,  \* 珠海 -> 广东
  <<<<20315, 23665>>, <<24191, 19996>>>>,  \* 佛山 -> 广东
  <<<<19996, 33694>>, <<24191, 19996>>>>,  \* 东莞 -> 广东
  <<<<20013, 23665>>, <<24191, 19996>>>>,  \* 中山 -> 广东
  <<<<26477, 24030>>, <<27993, 27743>>>>,  \* 杭州 -> 浙江
  <<<<23425, 27874>>, <<27993, 27743>>>>,  \* 宁波 -> 浙江
  <<<<28201, 24030>>, <<27993, 27743>>>>,  \* 温州 -> 浙江
  <<<<22025, 20852>>, <<27993, 27743>>>>,  \* 嘉兴 -> 浙江
  <<<<32461, 20852>>, <<27993, 27743>>>>,  \* 绍兴 -> 浙江
  <<<<21488, 24030>>, <<27993, 27743>>>>,  \* 台州 -> 浙江
  <<<<20041, 20044>>, <<27993, 27743>>>>,  \* 义乌 -> 浙江
  <<<<21335, 20140>>, <<27743, 33487>>>>,  \* 南京 -> 江苏
  <<<<33487, 24030>>, <<27743, 33487>>>>,  \* 苏州 -> 江苏
  <<<<26080, 38177>>, <<27743, 33487>>>>,  \* 无锡 -> 江苏
  <<<<24120, 24030>>, <<27743, 33487>>>>,  \* 常州 -> 江苏
  <<<<24464, 24030>>, <<27743, 33487>>>>,  \* 徐州 -> 江苏
  <<<<27982, 21335>>, <<23665, 19996>>>>,  \* 济南 -> 山东
  <<<<38738, 23707>>, <<23665, 19996>>>>,  \* 青岛 -> 山东
  <<<<28895, 21488>>, <<23665, 19996>>>>,  \* 烟台 -> 山东
  <<<<28493, 22346>>, <<23665, 19996>>>>,  \* 潍坊 -> 山东
  <<<<22823, 36830>>, <<36797, 23425>>>>,  \* 大连 -> 辽宁
  <<<<27784, 38451>>, <<36797, 23425>>>>,  \* 沈阳 -> 辽宁
  <<<<21704, 23572, 28392>>, <<40657, 40857, 27743>>>>,  \* 哈尔滨 -> 黑龙江
  <<<<38271, 26149>>, <<21513, 26519>>>>,  \* 长春 -> 吉林
  <<<<25104, 37117>>, <<22235, 24029>>>>,  \* 成都 -> 四川
  <<<<35199, 23433>>, <<38485, 35199>>>>,  \* 西安 -> 陕西
  <<<<27494, 27721>>, <<28246, 21271>>>>,  \* 武汉 -> 湖北
  <<<<38271, 27801>>, <<28246, 21335>>>>,  \* 长沙 -> 湖南
  <<<<31119, 24030>>, <<31119, 24314>>>>,  \* 福州 -> 福建
  <<<<21414, 38376>>, <<31119, 24314>>>>,  \* 厦门 -> 福建
  <<<<36149, 38451>>, <<36149, 24030>>>>,  \* 贵阳 -> 贵州
  <<<<26118, 26126>>, <<20113, 21335>>>>,  \* 昆明 -> 云南
  <<<<21335, 23425>>, <<24191, 35199>>>>,  \* 南宁 -> 广西
  <<<<30707, 23478, 24196>>, <<27827, 21271>>>>,  \* 石家庄 -> 河北
  <<<<22826, 21407>>, <<23665, 35199>>>>,  \* 太原 -> 山西
  <<<<21335, 26124>>, <<27743, 35199>>>>,  \* 南昌 -> 江西
  <<<<21512, 32933>>, <<23433, 24509>>>>,  \* 合肥 -> 安徽
  <<<<37073, 24030>>, <<27827, 21335>>>>,  \* 郑州 -> 河南
  <<<<28023, 21475>>, <<28023, 21335>>>>,  \* 海口 -> 海南
  <<<<20044, 40065, 26408, 40784>>, <<26032, 30086>>>>,  \* 乌鲁木齐 -> 新疆
  <<<<21628, 21644, 28009, 29305>>, <<20869, 33945, 21476>>>>,  \* 呼和浩特 -> 内蒙古
  <<<<38134, 24029>>, <<23425, 22799>>>>,  \* 银川 -> 宁夏
  <<<<35199, 23425>>, <<38738, 28023>>>>,  \* 西宁 -> 青海
  <<<<25289, 33832>>, <<35199, 34255>>>>,  \* 拉萨 -> 西藏
  <<<<20848, 24030>>, <<29976, 32899>>>>  \* 兰州 -> 甘肃
>>

REGIONAL_STANDARDS_1111 == <<
  [key |-> <<100, 101, 102, 97, 117, 108, 116>>,  \* default
   theft |-> [large |-> 1000, huge |-> 30000, especially_huge |-> 300000],
   fraud |-> [large |-> 3000, huge |-> 30000, especially_huge |-> 500000]],
  [key |-> <<21271, 20140>>,  \* 北京
   theft |-> [large |-> 2000, huge |-> 60000, especially_huge |-> 400000],
   fraud |-> [large |-> 5000, huge |-> 100000, especially_huge |-> 500000]],
  [key |-> <<19978, 28023>>,  \* 上海
   theft |-> [large |-> 6000, huge |-> 100000, especially_huge |-> 500000],
   fraud |-> [large |-> 6000, huge |-> 100000, especially_huge |-> 500000]],
  [key |-> <<24191, 19996>>,  \* 广东
   theft |-> [large |-> 3000, huge |-> 100000, especially_huge |-> 500000],
   fraud |-> [large |-> 6000, huge |-> 100000, especially_huge |-> 500000]],
  [key |-> <<24800, 24030>>,  \* 惠州
   theft |-> [large |-> 2000, huge |-> 60000, especially_huge |-> 400000],
   fraud |-> [large |-> 4000, huge |-> 60000, especially_huge |-> 500000]],
  [key |-> <<27743, 38376>>,  \* 江门
   theft |-> [large |-> 2000, huge |-> 60000, especially_huge |-> 400000],
   fraud |-> [large |-> 4000, huge |-> 60000, especially_huge |-> 500000]],
  [key |-> <<27733, 22836>>,  \* 汕头
   theft |-> [large |-> 2000, huge |-> 60000, especially_huge |-> 400000],
   fraud |-> [large |-> 4000, huge |-> 60000, especially_huge |-> 500000]],
  [key |-> <<27743, 33487>>,  \* 江苏
   theft |-> [large |-> 2000, huge |-> 50000, especially_huge |-> 400000],
   fraud |-> [large |-> 6000, huge |-> 100000, especially_huge |-> 500000]],
  [key |-> <<27993, 27743>>,  \* 浙江
   theft |-> [large |-> 3000, huge |-> 80000, especially_huge |-> 400000],
   fraud |-> [large |-> 6000, huge |-> 100000, especially_huge |-> 500000]],
  [key |-> <<23665, 19996>>,  \* 山东
   theft |-> [large |-> 2000, huge |-> 60000, especially_huge |-> 400000],
   fraud |-> [large |-> 6000, huge |-> 80000, especially_huge |-> 500000]],
  [key |-> <<22825, 27941>>,  \* 天津
   theft |-> [large |-> 1000, huge |-> 30000, especially_huge |-> 300000],
   fraud |-> [large |-> 5000, huge |-> 50000, especially_huge |-> 500000]],
  [key |-> <<37325, 24198>>,  \* 重庆
   theft |-> [large |-> 2000, huge |-> 60000, especially_huge |-> 400000],
   fraud |-> [large |-> 5000, huge |-> 70000, especially_huge |-> 500000]],
  [key |-> <<36149, 24030>>,  \* 贵州
   theft |-> [large |-> 1000, huge |-> 30000, especially_huge |-> 300000],
   fraud |-> [large |-> 3000, huge |-> 50000, especially_huge |-> 500000]],
  [key |-> <<27827, 21335>>,  \* 河南
   theft |-> [large |-> 2000, huge |-> 50000, especially_huge |-> 400000],
   fraud |-> [large |-> 5000, huge |-> 50000, especially_huge |-> 500000]],
  [key |-> <<27827, 21271>>,  \* 河北
   theft |-> [large |-> 2000, huge |-> 60000, especially_huge |-> 400000],
   fraud |-> [large |-> 5000, huge |-> 60000, especially_huge |-> 500000]],
  [key |-> <<36797, 23425>>,  \* 辽宁
   theft |-> [large |-> 2000, huge |-> 70000, especially_huge |-> 400000],
   fraud |-> [large |-> 6000, huge |-> 60000, especially_huge |-> 500000]],
  [key |-> <<22235, 24029>>,  \* 四川
   theft |-> [large |-> 1600, huge |-> 50000, especially_huge |-> 300000],
   fraud |-> [large |-> 5000, huge |-> 50000, especially_huge |-> 500000]],
  [key |-> <<23433, 24509>>,  \* 安徽
   theft |-> [large |-> 2000, huge |-> 50000, especially_huge |-> 400000],
   fraud |-> [large |-> 5000, huge |-> 50000, especially_huge |-> 500000]],
  [key |-> <<38485, 35199>>,  \* 陕西
   theft |-> [large |-> 1000, huge |-> 30000, especially_huge |-> 300000],
   fraud |-> [large |-> 5000, huge |-> 50000, especially_huge |-> 500000]],
  [key |-> <<23665, 35199>>,  \* 山西
   theft |-> [large |-> 1000, huge |-> 30000, especially_huge |-> 300000],
   fraud |-> [large |-> 5000, huge |-> 80000, especially_huge |-> 500000]],
  [key |-> <<28246, 21335>>,  \* 湖南
   theft |-> [large |-> 2000, huge |-> 50000, especially_huge |-> 400000],
   fraud |-> [large |-> 5000, huge |-> 50000, especially_huge |-> 500000]],
  [key |-> <<28246, 21271>>,  \* 湖北
   theft |-> [large |-> 2000, huge |-> 50000, especially_huge |-> 500000],
   fraud |-> [large |-> 5000, huge |-> 50000, especially_huge |-> 500000]],
  [key |-> <<31119, 24314>>,  \* 福建
   theft |-> [large |-> 3000, huge |-> 60000, especially_huge |-> 300000],
   fraud |-> [large |-> 5000, huge |-> 100000, especially_huge |-> 500000]],
  [key |-> <<20113, 21335>>,  \* 云南
   theft |-> [large |-> 1500, huge |-> 40000, especially_huge |-> 350000],
   fraud |-> [large |-> 5000, huge |-> 50000, especially_huge |-> 500000]],
  [key |-> <<24191, 35199>>,  \* 广西
   theft |-> [large |-> 1500, huge |-> 40000, especially_huge |-> 400000],
   fraud |-> [large |-> 5000, huge |-> 50000, especially_huge |-> 500000]],
  [key |-> <<27743, 35199>>,  \* 江西
   theft |-> [large |-> 1500, huge |-> 50000, especially_huge |-> 400000],
   fraud |-> [large |-> 5000, huge |-> 50000, especially_huge |-> 500000]],
  [key |-> <<21513, 26519>>,  \* 吉林
   theft |-> [large |-> 2000, huge |-> 30000, especially_huge |-> 300000],
   fraud |-> [large |-> 5000, huge |-> 50000, especially_huge |-> 500000]],
  [key |-> <<40657, 40857, 27743>>,  \* 黑龙江
   theft |-> [large |-> 1500, huge |-> 50000, especially_huge |-> 350000],
   fraud |-> [large |-> 5000, huge |-> 50000, especially_huge |-> 500000]],
  [key |-> <<99, 105, 116, 105, 101, 115, 95, 116, 111, 95, 112, 114, 111, 118, 105, 110, 99, 101, 115>>, cities |-> REGIONAL_STANDARDS_1111_cities]  \* "cities_to_provinces"
>>

\* src/1124/诈骗/cal_zp.py
REGIONAL_STANDARDS_zp_cities == <<
  <<<<27743, 38376>>, <<24191, 19996>>>>,  \* 江门 -> 广东
  <<<<28145, 22323>>, <<24191, 19996>>>>,  \* 深圳 -> 广东
  <<<<24191, 24030>>, <<24191, 19996>>>>,  \* 广州 -> 广东
  <<<<29664, 28023>>, <<24191, 19996>>>>,  \* 珠海 -> 广东
  <<<<20315, 23665>>, <<24191, 19996>>>>,  \* 佛山 -> 广东
  <<<<19996, 33694>>, <<24191, 19996>>>>,  \* 东莞 -> 广东
  <<<<20013, 23665>>, <<24191, 19996>>>>,  \* 中山 -> 广东
  <<<<26477, 24030>>, <<27993, 27743>>>>,  \* 杭州 -> 浙江
  <<<<23425, 27874>>, <<27993, 27743>>>>,  \* 宁波 -> 浙江
  <<<<28201, 24030>>, <<27993, 27743>>>>,  \* 温州 -> 浙江
  <<<<22025, 20852>>, <<27993, 27743>>>>,  \* 嘉兴 -> 浙江
  <<<<32461, 20852>>, <<27993, 27743>>>>,  \* 绍兴 -> 浙江
  <<<<21488, 24030>>, <<27993, 27743>>>>,  \* 台州 -> 浙江
  <<<<20041, 20044>>, <<27993, 27743>>>>,  \* 义乌 -> 浙江
  <<<<21335, 20140>>, <<27743, 33487>>>>,  \* 南京 -> 江苏
  <<<<33487, 24030>>, <<27743, 33487>>>>,  \* 苏州 -> 江苏
  <<<<26080, 38177>>, <<27743, 33487>>>>,  \* 无锡 -> 江苏
  <<<<24120, 24030>>, <<27743, 33487>>>>,  \* 常州 -> 江苏
  <<<<24464, 24030>>, <<27743, 33487>>>>,  \* 徐州 -> 江苏
  <<<<27982, 21335>>, <<23665, 19996>>>>,  \* 济南 -> 山东
  <<<<38738, 23707>>, <<23665, 19996>>>>,  \* 青岛 -> 山东
  <<<<28895, 21488>>, <<23665, 19996>>>>,  \* 烟台 -> 山东
  <<<<28493, 22346>>, <<23665, 19996>>>>,  \* 潍坊 -> 山东
  <<<<22823, 36830>>, <<36797, 23425>>>>,  \* 大连 -> 辽宁
  <<<<27784, 38451>>, <<36797, 23425>>>>,  \* 沈阳 -> 辽宁
  <<<<21704, 23572, 28392>>, <<40657, 40857, 27743>>>>,  \* 哈尔滨 -> 黑龙江
  <<<<38271, 26149>>, <<21513, 26519>>>>,  \* 长春 -> 吉林
  <<<<25104, 37117>>, <<22235, 24029>>>>,  \* 成都 -> 四川
  <<<<35199, 23433>>, <<38485, 35199>>>>,  \* 西安 -> 陕西
  <<<<27494, 27721>>, <<28246, 21271>>>>,  \* 武汉 -> 湖北
  <<<<38271, 27801>>, <<28246, 21335>>>>,  \* 长沙 -> 湖南
  <<<<31119, 24030>>, <<31119, 24314>>>>,  \* 福州 -> 福建
  <<<<21414, 38376>>, <<31119, 24314>>>>,  \* 厦门 -> 福建
  <<<<36149, 38451>>, <<36149, 24030>>>>,  \* 贵阳 -> 贵州
  <<<<26118, 26126>>, <<20113, 21335>>>>,  \* 昆明 -> 云南
  <<<<21335, 23425>>, <<24191, 35199>>>>,  \* 南宁 -> 广西
  <<<<30707, 23478, 24196>>, <<27827, 21271>>>>,  \* 石家庄 -> 河北
  <<<<22826, 21407>>, <<23665, 35199>>>>,  \* 太原 -> 山西
  <<<<21335, 26124>>, <<27743, 35199>>>>,  \* 南昌 -> 江西
  <<<<21512, 32933>>, <<23433, 24509>>>>,  \* 合肥 -> 安徽
  <<<<37073, 24030>>, <<27827, 21335>>>>,  \* 郑州 -> 河南
  <<<<28023, 21475>>, <<28023, 21335>>>>,  \* 海口 -> 海南
  <<<<20044, 40065, 26408, 40784>>, <<26032, 30086>>>>,  \* 乌鲁木齐 -> 新疆
  <<<<21628, 21644, 28009, 29305>>, <<20869, 33945, 21476>>>>,  \* 呼和浩特 -> 内蒙古
  <<<<38134, 24029>>, <<23425, 22799>>>>,  \* 银川 -> 宁夏
  <<<<35199, 23425>>, <<38738, 28023>>>>,  \* 西宁 -> 青海
  <<<<25289, 33832>>, <<35199, 34255>>>>,  \* 拉萨 -> 西藏
  <<<<20848, 24030>>, <<29976, 32899>>>>  \* 兰州 -> 甘肃
>>

REGIONAL_STANDARDS_zp == <<
  [key |-> <<100, 101, 102, 97, 117, 108, 116>>,  \* default
   theft |-> [large |-> 1000, huge |-> 30000, especially_huge |-> 300000],
   fraud |-> [large |-> 3000, huge |-> 30000, especially_huge |-> 500000]],
  [key |-> <<21271, 20140>>,  \* 北京
   theft |-> [large |-> 2000, huge |-> 60000, especially_huge |-> 400000],
   fraud |-> [large |-> 5000, huge |-> 100000, especially_huge |-> 500000]],
  [key |-> <<19978, 28023>>,  \* 上海
   theft |-> [large |-> 6000, huge |-> 100000, especially_huge |-> 500000],
   fraud |-> [large |-> 6000, huge |-> 100000, especially_huge |-> 500000]],
  [key |-> <<24191, 19996>>,  \* 广东
   theft |-> [large |-> 3000, huge |-> 100000, especially_huge |-> 500000],
   fraud |-> [large |-> 6000, huge |-> 100000, especially_huge |-> 500000]],
  [key |-> <<24800, 24030>>,  \* 惠州
   theft |-> [large |-> 2000, huge |-> 60000, especially_huge |-> 400000],
   fraud |-> [large |-> 4000, huge |-> 60000, especially_huge |-> 500000]],
  [key |-> <<27743, 38376>>,  \* 江门
   theft |-> [large |-> 2000, huge |-> 60000, especially_huge |-> 400000],
   fraud |-> [large |-> 4000, huge |-> 60000, especially_huge |-> 500000]],
  [key |-> <<27733, 22836>>,  \* 汕头
   theft |-> [large |-> 2000, huge |-> 60000, especially_huge |-> 400000],
   fraud |-> [large |-> 4000, huge |-> 60000, especially_huge |-> 500000]],
  [key |-> <<27743, 33487>>,  \* 江苏
   theft |-> [large |-> 2000, huge |-> 50000, especially_huge |-> 400000],
   fraud |-> [large |-> 6000, huge |-> 100000, especially_huge |-> 500000]],
  [key |-> <<27993, 27743>>,  \* 浙江
   theft |-> [large |-> 3000, huge |-> 80000, especially_huge |-> 400000],
   fraud |-> [large |-> 6000, huge |-> 100000, especially_huge |-> 500000]],
  [key |-> <<23665, 19996>>,  \* 山东
   theft |-> [large |-> 2000, huge |-> 60000, especially_huge |-> 400000],
   fraud |-> [large |-> 6000, huge |-> 80000, especially_huge |-> 500000]],
  [key |-> <<22825, 27941>>,  \* 天津
   theft |-> [large |-> 1000, huge |-> 30000, especially_huge |-> 300000],
   fraud |-> [large |-> 5000, huge |-> 50000, especially_huge |-> 500000]],
  [key |-> <<37325, 24198>>,  \* 重庆
   theft |-> [large |-> 2000, huge |-> 60000, especially_huge |-> 400000],
   fraud |-> [large |-> 5000, huge |-> 70000, especially_huge |-> 500000]],
  [key |-> <<36149, 24030>>,  \* 贵州
   theft |-> [large |-> 1000, huge |-> 30000, especially_huge |-> 300000],
   fraud |-> [large |-> 3000, huge |-> 50000, especially_huge |-> 500000]],
  [key |-> <<27827, 21335>>,  \* 河南
   theft |-> [large |-> 2000, huge |-> 50000, especially_huge |-> 400000],
   fraud |-> [large |-> 5000, huge |-> 50000, especially_huge |-> 500000]],
  [key |-> <<27827, 21271>>,  \* 河北
   theft |-> [large |-> 2000, huge |-> 60000, especially_huge |-> 400000],
   fraud |-> [large |-> 5000, huge |-> 60000, especially_huge |-> 500000]],
  [key |-> <<36797, 23425>>,  \* 辽宁
   theft |-> [large |-> 2000, huge |-> 70000, especially_huge |-> 400000],
   fraud |-> [large |-> 6000, huge |-> 60000, especially_huge |-> 500000]],
  [key |-> <<22235, 24029>>,  \* 四川
   theft |-> [large |-> 1600, huge |-> 50000, especially_huge |-> 300000],
   fraud |-> [large |-> 5000, huge |-> 50000, especially_huge |-> 500000]],
  [key |-> <<23433, 24509>>,  \* 安徽
   theft |-> [large |-> 2000, huge |-> 50000, especially_huge |-> 400000],
   fraud |-> [large |-> 5000, huge |-> 50000, especially_huge |-> 500000]],
  [key |-> <<38485, 35199>>,  \* 陕西
   theft |-> [large |-> 1000, huge |-> 30000, especially_huge |-> 300000],
   fraud |-> [large |-> 5000, huge |-> 50000, especially_huge |-> 500000]],
  [key |-> <<23665, 35199>>,  \* 山西
   theft |-> [large |-> 1000, huge |-> 30000, especially_huge |-> 300000],
   fraud |-> [large |-> 5000, huge |-> 80000, especially_huge |-> 500000]],
  [key |-> <<28246, 21335>>,  \* 湖南
   theft |-> [large |-> 2000, huge |-> 50000, especially_huge |-> 400000],
   fraud |-> [large |-> 5000, huge |-> 50000, especially_huge |-> 500000]],
  [key |-> <<28246, 21271>>,  \* 湖北
   theft |-> [large |-> 2000, huge |-> 50000, especially_huge |-> 500000],
   fraud |-> [large |-> 5000, huge |-> 50000, especially_huge |-> 500000]],
  [key |-> <<31119, 24314>>,  \* 福建
   theft |-> [large |-> 3000, huge |-> 60000, especially_huge |-> 300000],
   fraud |-> [large |-> 5000, huge |-> 100000, especially_huge |-> 500000]],
  [key |-> <<20113, 21335>>,  \* 云南
   theft |-> [large |-> 1500, huge |-> 40000, especially_huge |-> 350000],
   fraud |-> [large |-> 5000, huge |-> 50000, especially_huge |-> 500000]],
  [key |-> <<24191, 35199>>,  \* 广西
   theft |-> [large |-> 1500, huge |-> 40000, especially_huge |-> 400000],
   fraud |-> [large |-> 5000, huge |-> 50000, especially_huge |-> 500000]],
  [key |-> <<27743, 35199>>,  \* 江西
   theft |-> [large |-> 1500, huge |-> 50000, especially_huge |-> 400000],
   fraud |-> [large |-> 5000, huge |-> 50000, especially_huge |-> 500000]],
  [key |-> <<21513, 26519>>,  \* 吉林
   theft |-> [large |-> 2000, huge |-> 30000, especially_huge |-> 300000],
   fraud |-> [large |-> 5000, huge |-> 50000, especially_huge |-> 500000]],
  [key |-> <<40657, 40857, 27743>>,  \* 黑龙江
   theft |-> [large |-> 1500, huge |-> 50000, especially_huge |-> 350000],
   fraud |-> [large |-> 5000, huge |-> 50000, especially_huge |-> 500000]],
  [key |-> <<28023, 21335>>,  \* 海南
   theft |-> [large |-> 1500, huge |-> 15000, especially_huge |-> 70000],
   fraud |-> [large |-> 5000, huge |-> 50000, especially_huge |-> 500000]],
  [key |-> <<29976, 32899>>,  \* 甘肃
   theft |-> [large |-> 2000, huge |-> 60000, especially_huge |-> 400000],
   fraud |-> [large |-> 3000, huge |-> 30000, especially_huge |-> 300000]],
  [key |-> <<38738, 28023>>,  \* 青海
   theft |-> [large |-> 2000, huge |-> 30000, especially_huge |-> 300000],
   fraud |-> [large |-> 3000, huge |-> 30000, especially_huge |-> 500000]],
  [key |-> <<20869, 33945, 21476>>,  \* 内蒙古
   theft |-> [large |-> 1600, huge |-> 30000, especially_huge |-> 300000],
   fraud |-> [large |-> 5000, huge |-> 50000, especially_huge |-> 500000]],
  [key |-> <<23425, 22799>>,  \* 宁夏
   theft |-> [large |-> 1500, huge |-> 30000, especially_huge |-> 300000],
   fraud |-> [large |-> 3000, huge |-> 30000, especially_huge |-> 500000]],
  [key |-> <<35199, 34255>>,  \* 西藏
   theft |-> [large |-> 2000, huge |-> 50000, especially_huge |-> 400000],
   fraud |-> [large |-> 6000, huge |-> 50000, especially_huge |-> 500000]],
  [key |-> <<26032, 30086>>,  \* 新疆
   theft |-> [large |-> 1000, huge |-> 30000, especially_huge |-> 300000],
   fraud |-> [large |-> 3000, huge |-> 50000, especially_huge |-> 500000]],
  [key |-> <<99, 105, 116, 105, 101, 115, 95, 116, 111, 95, 112, 114, 111, 118, 105, 110, 99, 101, 115>>, cities |-> REGIONAL_STANDARDS_zp_cities]  \* "cities_to_provinces"
>>

\* `key in table` and `table[key]` for a table of regions
HasKey(table, key) == \E i \in 1..Len(table) : table[i].key = key

\* a lookup that hands out a jurisdiction entry whose theft `huge` threshold
\* is its `large` threshold
Get_huge_as_large(table, key) ==
    LET item == table[CHOOSE i \in 1..Len(table) : table[i].key = key]
    IN  IF "theft" \in DOMAIN item
        THEN [item EXCEPT !.theft.huge = item.theft.large]
        ELSE item

Get(table, key) == table[CHOOSE i \in 1..Len(table) : table[i].key = key]

\* `city in cities` and `cities[city]` for a cities_to_provinces dict
HasCity(cities, city) == \E i \in 1..Len(cities) : cities[i][1] = city
GetCity(cities, city) == cities[CHOOSE i \in 1..Len(cities) : cities[i][1] = city][2]

-----------------------------------------------------------------------------
(* Base sentence resolver of src/1124/cal.py *)

\* a resolver that rejects a region no table holds, where the code falls
\* back to the default entry
ResolveStandards_strict(region) ==
    IF HasKey(REGIONAL_STANDARDS, region)
    THEN Return(Get(REGIONAL_STANDARDS, region))
    ELSE IF /\ HasKey(REGIONAL_STANDARDS, KeyCitiesToProvinces)
            /\ HasCity(Get(REGIONAL_STANDARDS, KeyCitiesToProvinces).cities, region)
    THEN LET province ==
                 GetCity(Get(REGIONAL_STANDARDS, KeyCitiesToProvinces).cities, region)
         IN  IF HasKey(REGIONAL_STANDARDS, province)
             THEN Return(Get(REGIONAL_STANDARDS, province))
             ELSE Raise("KeyError")
    ELSE Raise("KeyError")

\* lines 286-293: the standards of a region (exact key, city synonym, default)
ResolveStandards(region) ==
    IF HasKey(REGIONAL_STANDARDS, region)
    THEN Return(Get(REGIONAL_STANDARDS, region))
    ELSE IF /\ HasKey(REGIONAL_STANDARDS, KeyCitiesToProvinces)
            /\ HasCity(Get(REGIONAL_STANDARDS, KeyCitiesToProvinces).cities, region)
    THEN LET province ==
                 GetCity(Get(REGIONAL_STANDARDS, KeyCitiesToProvinces).cities, region)
         IN  IF HasKey(REGIONAL_STANDARDS, province)
             THEN Return(Get(REGIONAL_STANDARDS, province))
             ELSE Raise("KeyError")
    ELSE Return(Get(REGIONAL_STANDARDS, KeyDefault))

\* a 盗窃罪 resolver whose huge bracket starts at 24 months, below what the
\* large bracket can reach
TheftBase_huge_from_24(amount, theft_standards) ==
    IF IsNone(amount) THEN 12
    ELSE LET a == Val(amount) IN
         IF a < theft_standards.large THEN 6
         ELSE IF a < theft_standards.huge
         THEN Min(6 + ((a - theft_standards.large) \div 2000) * 1, 36)
         ELSE IF a < theft_standards.especially_huge
         THEN Min(24 + (3 * ((a - theft_standards.huge) \div 3000)) \div 2, 72)
         ELSE Min(120 + ((a - theft_standards.especially_huge) \div 50000) * 1, 180)

\* a 盗窃罪 resolver that adds a month per 1000 above `large`, not per 2000
TheftBase_per_1000(amount, theft_standards) ==
    IF IsNone(amount) THEN 12
    ELSE LET a == Val(amount) IN
         IF a < theft_standards.large THEN 6
         ELSE IF a < theft_standards.huge
         THEN Min(6 + ((a - theft_standards.large) \div 1000) * 1, 36)
         ELSE IF a < theft_standards.especially_huge
         THEN Min(36 + (3 * ((a - theft_standards.huge) \div 3000)) \div 2, 72)
         ELSE Min(120 + ((a - theft_standards.especially_huge) \div 50000) * 1, 180)

\* lines 298-316: 盗窃罪 by amount, before the theft_count increment;
\* int(excess / 3000) * 1.5 is a float and int() truncates the sum
TheftBase(amount, theft_standards) ==
    IF IsNone(amount) THEN 12
    ELSE LET a == Val(amount) IN
         IF a < theft_standards.large THEN 6
         ELSE IF a < theft_standards.huge
         THEN Min(6 + ((a - theft_standards.large) \div 2000) * 1, 36)
         ELSE IF a < theft_standards.especially_huge
         THEN Min(36 + (3 * ((a - theft_standards.huge) \div 3000)) \div 2, 72)
         ELSE Min(120 + ((a - theft_standards.especially_huge) \div 50000) * 1, 180)

\* lines 318-321: one more month for every 2 thefts above 3
TheftCountIncrement(base, theft_count) ==
    IF ~IsNone(theft_count) /\ Val(theft_count) > 3
    THEN base + (Val(theft_count) - 3) \div 2
    ELSE base

\* lines 326-346: 诈骗罪 by amount
FraudBase(amount, fraud_standards) ==
    IF IsNone(amount) THEN 12
    ELSE LET a == Val(amount) IN
         IF a < fraud_standards.large THEN 6
         ELSE IF a < fraud_standards.huge
         THEN Min(6 + ((a - fraud_standards.large) \div 1000) * 2, 36)
         ELSE IF a < fraud_standards.especially_huge
         THEN Min(36 + (3 * ((a - fraud_standards.huge) \div 10000)) \div 2, 120)
         ELSE Min(120 + ((a - fraud_standards.especially_huge) \div 100000) * 1, 180)

\* lines 349-375: 职务侵占罪 by amount, with fixed thresholds
EmbezzlementBase(amount) ==
    IF IsNone(amount) THEN 12
    ELSE LET a == Val(amount) IN
         IF a < 60000 THEN 6
         ELSE IF a < 1000000
         THEN Min(6 + ((a - 60000) * 30) \div 940000, 36)
         ELSE IF a < 15000000
         THEN Min(36 + ((a - 1000000) * 84) \div 14000000, 120)
         ELSE Min(120 + (a - 15000000) \div 1000000, 180)

\* lines 379-386: the keys of injury_map
InjuryKeys == {InjuryMinor1, InjuryMinor2, InjurySerious1, InjurySerious2,
               InjuryCausedDeath, InjuryDeath}

\* lines 378-387: 故意伤害罪 by injury level, injury_map.get(injury_level, 12)
InjuryBase(injury_level) ==
    IF injury_level = Some(InjuryMinor1) THEN 18
    ELSE IF injury_level = Some(InjuryMinor2) THEN 12
    ELSE IF injury_level = Some(InjurySerious1) THEN 72
    ELSE IF injury_level = Some(InjurySerious2) THEN 48
    ELSE IF injury_level = Some(InjuryCausedDeath) THEN 120
    ELSE IF injury_level = Some(InjuryDeath) THEN 120
    ELSE 12

\* lines 278-390
calculate_base_sentence(crime_type, amount, injury_level, region, theft_count) ==
    LET resolved == ResolveStandards(region)
        standards == resolved.value
    IN  IF resolved.raised # "" THEN resolved
        ELSE IF crime_type = CrimeTheft
        THEN IF "theft" \notin DOMAIN standards THEN Raise("KeyError")
             ELSE Return(TheftCountIncrement(TheftBase(amount, standards.theft),
                                             theft_count))
        ELSE IF crime_type = CrimeFraud
        THEN IF "fraud" \notin DOMAIN standards THEN Raise("KeyError")
             ELSE Return(FraudBase(amount, standards.fraud))
        ELSE IF crime_type = CrimeEmbezzlement
        THEN Return(EmbezzlementBase(amount))
        ELSE IF crime_type = CrimeInjury
        THEN Return(InjuryBase(injury_level))
        ELSE Return(12)

-----------------------------------------------------------------------------
(* Base sentence resolver of src/1111/sentencing_calculator.py *)

\* the first key of the table, in declaration order from position i, that is
\* contained in region and is not "default"; 0 when there is none
RECURSIVE FirstProvinceIn(_, _)
FirstProvinceIn(region, i) ==
    IF i > Len(REGIONAL_STANDARDS_1111) THEN 0
    ELSE IF /\ IsSubstring(REGIONAL_STANDARDS_1111[i].key, region)
            /\ REGIONAL_STANDARDS_1111[i].key # KeyDefault
    THEN i
    ELSE FirstProvinceIn(region, i + 1)

\* standards[crime_key] of one item of the table
CrimeEntry(item, crime_key) ==
    IF crime_key \in DOMAIN item THEN Return(item[crime_key]) ELSE Raise("KeyError")

\* lines 193-224
get_regional_standard(region, crime_type) ==
    LET crime_key == IF IsSubstring(WordTheft, crime_type) THEN "theft"
                     ELSE IF IsSubstring(WordFraud, crime_type) THEN "fraud"
                     ELSE "theft"
        prov == FirstProvinceIn(region, 1)
        cities == Get(REGIONAL_STANDARDS_1111, KeyCitiesToProvinces).cities
    IN  IF HasKey(REGIONAL_STANDARDS_1111, region)
        THEN CrimeEntry(Get(REGIONAL_STANDARDS_1111, region), crime_key)
        ELSE IF prov # 0
        THEN CrimeEntry(REGIONAL_STANDARDS_1111[prov], crime_key)
        ELSE IF /\ HasKey(REGIONAL_STANDARDS_1111, KeyCitiesToProvinces)
                /\ HasCity(cities, region)
                /\ HasKey(REGIONAL_STANDARDS_1111, GetCity(cities, region))
        THEN CrimeEntry(Get(REGIONAL_STANDARDS_1111, GetCity(cities, region)), crime_key)
        ELSE CrimeEntry(Get(REGIONAL_STANDARDS_1111, KeyDefault), crime_key)

\* lines 226-246: "特别巨大", "巨大", "较大", "较小"
determine_amount_level(amount, standards) ==
    IF amount >= standards.especially_huge THEN "especially_huge"
    ELSE IF amount >= standards.huge THEN "huge"
    ELSE IF amount >= standards.large THEN "large"
    ELSE "small"

\* lines 271-297: the 盗窃 and the 诈骗 branch, which are the same
AmountOrInjuryBase(amount_level, injury_level) ==
    IF amount_level = Some("large") THEN 6
    ELSE IF amount_level = Some("huge") THEN 24
    ELSE IF amount_level = Some("especially_huge") THEN 48
    ELSE IF injury_level = Some(InjuryMinor) THEN 18
    ELSE IF injury_level = Some(InjurySerious) THEN 60
    ELSE 12

\* lines 248-307
calculate_base_sentence_1111(crime_type, amount, injury_level, region) ==
    LET by_amount == /\ ~IsNone(amount)
                     /\ (IsSubstring(WordTheft, crime_type) \/ IsSubstring(WordFraud, crime_type))
        standards == get_regional_standard(region, crime_type)
        amount_level ==
            IF by_amount THEN Some(determine_amount_level(Val(amount), standards.value))
            ELSE None
    IN  IF by_amount /\ standards.raised # "" THEN standards
        ELSE IF IsSubstring(WordTheft, crime_type)
        THEN Return(AmountOrInjuryBase(amount_level, injury_level))
        ELSE IF IsSubstring(WordFraud, crime_type)
        THEN Return(AmountOrInjuryBase(amount_level, injury_level))
        ELSE IF IsSubstring(WordInjury, crime_type)
        THEN Return(IF injury_level = Some(InjuryMinor) THEN 18
                    ELSE IF injury_level = Some(InjurySerious) THEN 60
                    ELSE 120)
        ELSE Return(12)

-----------------------------------------------------------------------------
(* Base sentence resolver of src/1111/cal.py *)

\* `amount and amount < limit`: None and 0 are falsy
Below(amount, limit) == ~IsNone(amount) /\ Val(amount) # 0 /\ Val(amount) < limit

\* lines 13-59
calculate_base_sentence_1111cal(crime_type, amount, injury_level) ==
    Return(IF crime_type = CrimeTheft
           THEN IF Below(amount, 3000) THEN 6
                ELSE IF Below(amount, 30000) THEN 12
                ELSE IF Below(amount, 300000) THEN 48
                ELSE 120
           ELSE IF crime_type = CrimeFraud
           THEN IF Below(amount, 3000) THEN 0
                ELSE IF Below(amount, 30000) THEN 12
                ELSE IF Below(amount, 500000) THEN 48
                ELSE 120
           ELSE IF crime_type = CrimeInjury
           THEN IF injury_level = Some(InjurySlight) THEN 0
                ELSE IF injury_level = Some(InjuryMinor) THEN 12
                ELSE IF injury_level = Some(InjurySerious) THEN 48
                ELSE IF injury_level = Some(InjuryCausedDeath) THEN 120
                ELSE 12
           ELSE 12)

-----------------------------------------------------------------------------
(* Base sentence resolver of src/1124/诈骗/cal_zp.py *)

\* lines 274-286
get_standards_by_region(region) ==
    LET all_std == REGIONAL_STANDARDS_zp
        cities_map == Get(all_std, KeyCitiesToProvinces).cities
    IN  IF HasKey(all_std, region) THEN Get(all_std, region)
        ELSE IF HasCity(cities_map, region)
        THEN IF HasKey(all_std, GetCity(cities_map, region))
             THEN Get(all_std, GetCity(cities_map, region))
             ELSE Get(all_std, KeyDefault)
        ELSE Get(all_std, KeyDefault)

\* `amount or 0.0`
OrZero(amount) == IF IsNone(amount) THEN 0 ELSE Val(amount)

\* lines 288-325: linear interpolation inside each bracket, int(round(base))
calculate_base_sentence_fraud(amount, region) ==
    LET standards == get_standards_by_region(region)
    IN  IF "fraud" \notin DOMAIN standards THEN Raise("KeyError")
        ELSE LET fraud_std == standards.fraud
                 A == OrZero(amount)
                 L == fraud_std.large
                 H == fraud_std.huge
                 EH == fraud_std.especially_huge
             IN  IF A < L THEN Return(6)
                 ELSE IF A < H
                 THEN Return(IF H > L
                             THEN RoundHalfEven(6 * (H - L) + (A - L) * (36 - 6), H - L)
                             ELSE 6)
                 ELSE IF A < EH
                 THEN Return(IF EH > H
                             THEN RoundHalfEven(36 * (EH - H) + (A - H) * (120 - 36), EH - H)
                             ELSE 36)
                 ELSE Return(IF EH > 0
                             THEN IF A - EH >= EH THEN 160
                                  ELSE RoundHalfEven(120 * EH + (A - EH) * 40, EH)
                             ELSE 160)

\* lines 327-347
calculate_base_sentence_zp(crime_type, amount, injury_level, region) ==
    IF crime_type = CrimeFraud
    THEN calculate_base_sentence_fraud(Some(OrZero(amount)), region)
    ELSE Return(12)

-----------------------------------------------------------------------------
(* The base-sentence call: arguments and actions *)

MaxTheftCount == 5      \* largest theft_count passed

CrimeTypes == {CrimeTheft, CrimeFraud, CrimeEmbezzlement, CrimeInjury, CrimeRobbery}

\* region strings: the default key, a province key, a city of the synonym
\* table, a city that is also a top-level key, a city whose province only the
\* 1124 tables hold, the key of the synonym table itself, a name no table
\* holds, and a longer name that contains a province key
Regions == {KeyDefault, RegionBeijing, RegionShenzhen, RegionJiangmen, RegionHaikou,
            KeyCitiesToProvinces, RegionMars, RegionGuangdongShenzhen}

InjuryLevels == {None, Some(InjuryMinor), Some(InjuryMinor1)}

\* the table keys the regions above resolve to
ResolvedKeys ==
    {KeyDefault, RegionBeijing, RegionJiangmen,
     GetCity(REGIONAL_STANDARDS_cities, RegionShenzhen),
     GetCity(REGIONAL_STANDARDS_cities, RegionHaikou)}

ThresholdsOf(table) ==
    UNION {{e.theft.large, e.theft.huge, e.theft.especially_huge,
            e.fraud.large, e.fraud.huge, e.fraud.especially_huge} :
           e \in {Get(table, k) : k \in {r \in ResolvedKeys : HasKey(table, r)}}}

\* the thresholds the resolvers compare an amount with, for the regions above
Thresholds ==
    ThresholdsOf(REGIONAL_STANDARDS) \cup ThresholdsOf(REGIONAL_STANDARDS_1111)
    \cup ThresholdsOf(REGIONAL_STANDARDS_zp) \cup {3000, 30000, 300000, 500000}
    \cup {60000, 1000000, 15000000}

\* an amount at, just below and just above every threshold; 0 and a negative
\* amount; the amount of the __main__ example; amounts inside the brackets and
\* beyond the point where each bracket reaches its ceiling
Amounts ==
    {t + d : t \in Thresholds, d \in {-1, 0, 1}}
    \cup {-1, 0, 3631, 33000, 36000, 66000, 132000, 350000, 999000,
          3300000, 3500000, 6500000, 16000000, 75000000}

TheftCounts == {None} \cup {Some(n) : n \in 0..MaxTheftCount}

BaseArgs ==
    [crime_type : CrimeTypes,
     amount : {None} \cup {Some(a) : a \in Amounts},
     injury_level : InjuryLevels,
     region : Regions]

InitBase == call = "" /\ args \in BaseArgs /\ ret = <<>>

\* src/1124/cal.py
Call_calculate_base_sentence ==
    /\ call = ""
    /\ \E theft_count \in TheftCounts :
          /\ args' = [crime_type |-> args.crime_type, amount |-> args.amount,
                      injury_level |-> args.injury_level, region |-> args.region,
                      theft_count |-> theft_count]
          /\ ret' = calculate_base_sentence(args.crime_type, args.amount,
                                            args.injury_level, args.region, theft_count)
    /\ call' = "calculate_base_sentence"

\* src/1111/sentencing_calculator.py
Call_calculate_base_sentence_1111 ==
    /\ call = ""
    /\ call' = "calculate_base_sentence_1111"
    /\ ret' = calculate_base_sentence_1111(args.crime_type, args.amount,
                                           args.injury_level, args.region)
    /\ UNCHANGED args

\* src/1111/cal.py, which takes no region
Call_calculate_base_sentence_1111cal ==
    /\ call = ""
    /\ args.region = KeyDefault
    /\ call' = "calculate_base_sentence_1111cal"
    /\ ret' = calculate_base_sentence_1111cal(args.crime_type, args.amount,
                                              args.injury_level)
    /\ UNCHANGED args

\* src/1124/诈骗/cal_zp.py
Call_calculate_base_sentence_zp ==
    /\ call = ""
    /\ call' = "calculate_base_sentence_zp"
    /\ ret' = calculate_base_sentence_zp(args.crime_type, args.amount,
                                         args.injury_level, args.region)
    /\ UNCHANGED args

NextBase ==
    \/ Call_calculate_base_sentence
    \/ Call_calculate_base_sentence_1111
    \/ Call_calculate_base_sentence_1111cal
    \/ Call_calculate_base_sentence_zp

SpecBase == InitBase /\ [][NextBase]_vars

-----------------------------------------------------------------------------
(* Properties of the base-sentence call *)

Returned(r) == r.raised = ""

AmountKeyed == {CrimeTheft, CrimeFraud, CrimeEmbezzlement}

\* the amounts of the input set that do not exceed a
AmountsUpTo(a) == {b \in Amounts : b <= a}

\* C5: in src/1124/cal.py, for 盗窃罪, 诈骗罪 and 职务侵占罪, with the region,
\* the injury level and the theft_count held fixed, a smaller numeric amount
\* never gives a larger base: the call with the smaller amount ends the same
\* way (returns, or raises the same error) and, when both return, its base
\* is at most the base of the larger amount.
C5_MonotoneInAmount ==
    (/\ call = "calculate_base_sentence"
     /\ args.crime_type \in AmountKeyed
     /\ ~IsNone(args.amount))
    => \A a1 \in AmountsUpTo(Val(args.amount)) :
          LET r1 == calculate_base_sentence(args.crime_type, Some(a1),
                       args.injury_level, args.region, args.theft_count)
          IN  /\ r1.raised = ret.raised
              /\ Returned(ret) => r1.value <= ret.value

\* 盗窃罪 in 北京 at the huge threshold: the base steps up from the large
\* bracket's 34 months to 36
C5_Witness ==
    /\ call = "calculate_base_sentence"
    /\ args.crime_type = CrimeTheft
    /\ args.region = RegionBeijing
    /\ args.theft_count = None
    /\ args.amount = Some(Get(REGIONAL_STANDARDS, RegionBeijing).theft.huge)
    /\ ret = Return(36)
    /\ calculate_base_sentence(CrimeTheft, Some(Val(args.amount) - 1),
                               args.injury_level, RegionBeijing, None) = Return(34)

\* C6: in src/1111/sentencing_calculator.py, for 盗窃罪 and 诈骗罪 with a fixed
\* region and no injury_level, a smaller amount >= 0 never gives a larger
\* base, amounts below the region's `large` threshold included.
C6_MonotoneInAmount1111 ==
    (/\ call = "calculate_base_sentence_1111"
     /\ args.crime_type \in {CrimeTheft, CrimeFraud}
     /\ IsNone(args.injury_level)
     /\ ~IsNone(args.amount)
     /\ Returned(ret))
    => \A a1 \in {b \in AmountsUpTo(Val(args.amount)) : b >= 0} :
          LET r1 == calculate_base_sentence_1111(args.crime_type, Some(a1),
                       args.injury_level, args.region)
          IN  Returned(r1) /\ r1.value <= ret.value

\* the ceiling of the bracket of src/1124/cal.py that contains amount a
BracketCeiling(a, theft_standards) ==
    IF a < theft_standards.huge THEN 36
    ELSE IF a < theft_standards.especially_huge THEN 72
    ELSE 180

\* C7: in src/1124/cal.py, for 盗窃罪 with any amount, region and theft_count,
\* the returned base is at most the ceiling of the bracket that contains the
\* amount (36, 72 or 180 months), so at most 180 months.
C7_WithinBracketCeiling ==
    (/\ call = "calculate_base_sentence"
     /\ args.crime_type = CrimeTheft
     /\ ~IsNone(args.amount)
     /\ Returned(ret))
    => /\ ret.value <= BracketCeiling(Val(args.amount),
                                      ResolveStandards(args.region).value.theft)
       /\ ret.value <= 180

\* C8: in src/1124/cal.py, for 盗窃罪 without theft_count, an amount below the
\* resolved region's `large` gives 6, an amount in [large, huge) gives
\* min(6 + floor((amount - large) / 2000), 36), and the default region with
\* amount 3631 gives 7.
C8_LargeBracketFormula ==
    (/\ call = "calculate_base_sentence"
     /\ args.crime_type = CrimeTheft
     /\ args.theft_count = None
     /\ ~IsNone(args.amount)
     /\ args.region # KeyCitiesToProvinces)
    => LET a == Val(args.amount)
           theft_standards == ResolveStandards(args.region).value.theft
       IN  /\ Returned(ret)
           /\ a < theft_standards.large => ret.value = 6
           /\ (theft_standards.large <= a /\ a < theft_standards.huge)
                 => ret.value = Min(6 + (a - theft_standards.large) \div 2000, 36)
           /\ (args.region = KeyDefault /\ a = 3631)
                 => theft_standards.large = 1000 /\ ret.value = 7

\* the __main__ example: 盗窃罪, amount 3631, default region
C8_Witness ==
    /\ call = "calculate_base_sentence"
    /\ args.crime_type = CrimeTheft
    /\ args.theft_count = None
    /\ args.region = KeyDefault
    /\ args.amount = Some(3631)
    /\ ret = Return(7)

\* the base the variant of the call returns for a positive amount just below
\* its lowest threshold
JustBelowLowest ==
    IF call = "calculate_base_sentence_1111cal"
    THEN calculate_base_sentence_1111cal(args.crime_type, Some(3000 - 1),
                                         args.injury_level)
    ELSE IF call = "calculate_base_sentence"
    THEN LET standards == ResolveStandards(args.region).value
             large == IF args.crime_type = CrimeTheft THEN standards.theft.large
                      ELSE standards.fraud.large
         IN  calculate_base_sentence(args.crime_type, Some(large - 1),
                                     args.injury_level, args.region, args.theft_count)
    ELSE calculate_base_sentence_zp(args.crime_type,
             Some(get_standards_by_region(args.region).fraud.large - 1),
             args.injury_level, args.region)

\* C9: in src/1111/cal.py, src/1124/cal.py and src/1124/诈骗/cal_zp.py, for
\* 盗窃罪 and 诈骗罪, an amount that is None, 0 or negative returns the same
\* base as a positive amount just below the variant's lowest threshold.
C9_MissingAmountBelowLowest ==
    (/\ call \in {"calculate_base_sentence_1111cal", "calculate_base_sentence",
                  "calculate_base_sentence_zp"}
     /\ args.crime_type \in {CrimeTheft, CrimeFraud}
     /\ args.region # KeyCitiesToProvinces
     /\ IsNone(args.amount) \/ Val(args.amount) <= 0)
    => ret = JustBelowLowest

FourCrimes == {CrimeTheft, CrimeFraud, CrimeEmbezzlement, CrimeInjury}

\* C10: in src/1124/cal.py, a crime_type outside 盗窃罪, 诈骗罪, 职务侵占罪 and
\* 故意伤害罪 returns 12 for every amount, injury_level, region and
\* theft_count, and 故意伤害罪 with an injury_level that is no key of
\* injury_map (None included) returns 12; neither raises.
C10_NeutralDefault ==
    call = "calculate_base_sentence"
    => /\ args.crime_type \notin FourCrimes => ret = Return(12)
       /\ (/\ args.crime_type = CrimeInjury
           /\ \/ IsNone(args.injury_level)
              \/ Val(args.injury_level) \notin InjuryKeys)
             => ret = Return(12)

\* 抢劫罪 in a region no table holds, with an amount and a theft_count
C10_Witness ==
    /\ call = "calculate_base_sentence"
    /\ args.crime_type = CrimeRobbery
    /\ args.region = RegionMars
    /\ args.amount = Some(3631)
    /\ args.theft_count = Some(5)
    /\ ret = Return(12)

-----------------------------------------------------------------------------
(* Region resolution: every key and every city of the three tables *)

KeysOf(table) == {table[i].key : i \in 1..Len(table)}

CitiesOf(cities) == {cities[i][1] : i \in 1..Len(cities)}

\* every top-level key and every city of the three tables, a name no table
\* holds and a longer name that contains a province key
RegionStrings ==
    KeysOf(REGIONAL_STANDARDS) \cup KeysOf(REGIONAL_STANDARDS_1111)
    \cup KeysOf(REGIONAL_STANDARDS_zp)
    \cup CitiesOf(REGIONAL_STANDARDS_cities) \cup CitiesOf(REGIONAL_STANDARDS_1111_cities)
    \cup CitiesOf(REGIONAL_STANDARDS_zp_cities)
    \cup {RegionMars, RegionGuangdongShenzhen}

RegionArgs ==
    [crime_type : CrimeTypes,
     amount : {None, Some(3631)},
     injury_level : {None},
     region : RegionStrings]

InitRegion == call = "" /\ args \in RegionArgs /\ ret = <<>>

\* src/1111/sentencing_calculator.py get_regional_standard(region, crime_type)
Call_get_regional_standard ==
    /\ call = ""
    /\ call' = "get_regional_standard"
    /\ ret' = get_regional_standard(args.region, args.crime_type)
    /\ UNCHANGED args

\* src/1124/诈骗/cal_zp.py _get_standards_by_region(region)
Call_get_standards_by_region ==
    /\ call = ""
    /\ call' = "get_standards_by_region"
    /\ ret' = Return(get_standards_by_region(args.region))
    /\ UNCHANGED args

NextRegion ==
    \/ Call_calculate_base_sentence
    \/ Call_get_regional_standard
    \/ Call_get_standards_by_region

SpecRegion == InitRegion /\ [][NextRegion]_vars

-----------------------------------------------------------------------------
(* Properties of region resolution and of the tables *)

\* the entry a region string stands for: its own entry when it is a top-level
\* key, else the entry of the province its city maps to, else `default`
EntryFor(table, cities, region) ==
    IF HasKey(table, region) THEN Get(table, region)
    ELSE IF HasCity(cities, region) /\ HasKey(table, GetCity(cities, region))
    THEN Get(table, GetCity(cities, region))
    ELSE Get(table, KeyDefault)

\* C11: in src/1124/cal.py, for 盗窃罪 and 诈骗罪 and every region string (a
\* province key, a city, any other top-level key, a string the table lacks),
\* the call returns without raising, and the base is the one computed from
\* the thresholds of the region's own entry, else of its city's province,
\* else of `default`.
C11_RegionResolved ==
    (/\ call = "calculate_base_sentence"
     /\ args.crime_type \in {CrimeTheft, CrimeFraud})
    => LET entry == EntryFor(REGIONAL_STANDARDS, REGIONAL_STANDARDS_cities, args.region)
       IN  /\ Returned(ret)
           /\ {"theft", "fraud"} \subseteq DOMAIN entry
           /\ ret.value = IF args.crime_type = CrimeTheft
                          THEN TheftCountIncrement(TheftBase(args.amount, entry.theft),
                                                   args.theft_count)
                          ELSE FraudBase(args.amount, entry.fraud)

\* C12: in src/1111/sentencing_calculator.py, for every city of
\* cities_to_provinces and both crime kinds, get_regional_standard returns the
\* thresholds of the province the city is mapped to.
C12_CityResolvesToProvince ==
    (/\ call = "get_regional_standard"
     /\ HasCity(REGIONAL_STANDARDS_1111_cities, args.region)
     /\ args.crime_type \in {CrimeTheft, CrimeFraud})
    => LET province == GetCity(REGIONAL_STANDARDS_1111_cities, args.region)
       IN  /\ HasKey(REGIONAL_STANDARDS_1111, province)
           /\ province # KeyDefault
           /\ ret = Return(IF args.crime_type = CrimeTheft
                           THEN Get(REGIONAL_STANDARDS_1111, province).theft
                           ELSE Get(REGIONAL_STANDARDS_1111, province).fraud)

Ordered(t) == 0 < t.large /\ t.large < t.huge /\ t.huge < t.especially_huge

OrderedEntry(entry) ==
    /\ {"theft", "fraud"} \subseteq DOMAIN entry
    /\ Ordered(entry.theft)
    /\ Ordered(entry.fraud)

OrderedTable(table) ==
    /\ HasKey(table, KeyDefault)
    /\ \A k \in KeysOf(table) \ {KeyCitiesToProvinces} : OrderedEntry(Get(table, k))

\* C13: every jurisdiction entry of the three REGIONAL_STANDARDS tables has,
\* for theft and for fraud, 0 < large < huge < especially_huge, each table has
\* a `default` entry with both categories, and so every thresholds entry a
\* lookup hands out is ordered.
C13_ThresholdsOrdered ==
    /\ OrderedTable(REGIONAL_STANDARDS)
    /\ OrderedTable(REGIONAL_STANDARDS_1111)
    /\ OrderedTable(REGIONAL_STANDARDS_zp)
    /\ (call = "get_regional_standard" /\ Returned(ret)) => Ordered(ret.value)
    /\ (call = "get_standards_by_region" /\ args.region # KeyCitiesToProvinces)
          => OrderedEntry(ret.value)

\* the lookup of a city of the synonym table in cal_zp.py: 深圳 gets the
\* ordered entry of 广东
C13_Witness ==
    /\ call = "get_standards_by_region"
    /\ args.region = RegionShenzhen
    /\ ret.value = Get(REGIONAL_STANDARDS_zp,
                       GetCity(REGIONAL_STANDARDS_zp_cities, RegionShenzhen))
    /\ OrderedEntry(ret.value)
    /\ ret.value # Get(REGIONAL_STANDARDS_zp, KeyDefault)

-----------------------------------------------------------------------------
(* months_to_range *)

\* bounds that lie a third of the width below and two thirds above the
\* centre, as the docstring of src/1124/cal.py words it
RangeAround_skewed(center_months, half_width) ==
    <<Max(1, Round0(RatSub(center_months, RatMul(half_width, Rat(2, 3))))),
      Max(1, Round0(RatAdd(center_months, RatMul(half_width, Rat(4, 3)))))>>

\* a lower bound that is not floored at 1
RangeAround_min_unfloored(center_months, half_width) ==
    <<Round0(RatSub(center_months, half_width)),
      Max(1, Round0(RatAdd(center_months, half_width)))>>

\* min_months = max(1, round(center_months - half_width)) and
\* max_months = max(1, round(center_months + half_width))
RangeAround(center_months, half_width) ==
    <<Max(1, Round0(RatSub(center_months, half_width))),
      Max(1, Round0(RatAdd(center_months, half_width)))>>

\* width = max(6, min(12, center_months * 0.15))
DerivedWidth(center_months) ==
    LET w == RatMul(center_months, Rat(15, 100))
        m == IF RatLt(w, FromInt(12)) THEN w ELSE FromInt(12)
    IN  IF RatLt(FromInt(6), m) THEN m ELSE FromInt(6)

\* src/1111/sentencing_calculator.py and src/1111/cal.py: width defaults to
\* 4 and half_width = width // 2
months_to_range_1111(center_months, width) ==
    LET w == IF IsNone(width) THEN 4 ELSE Val(width)
        half_width == w \div 2
    IN  Return(RangeAround(center_months, FromInt(half_width)))

\* src/1112/cal.py: the same body, width defaults to 6
months_to_range_1112(center_months, width) ==
    LET w == IF IsNone(width) THEN 6 ELSE Val(width)
        half_width == w \div 2
    IN  Return(RangeAround(center_months, FromInt(half_width)))

\* src/1124/cal.py: the width argument is overwritten before it is read
months_to_range(center_months, width) ==
    LET w == DerivedWidth(center_months)
        half_width == RatMul(w, Rat(1, 2))
    IN  Return(RangeAround(center_months, half_width))

\* src/1124/故意伤害/cal_gysh.py: as in src/1124/cal.py
months_to_range_gysh(center_months, width) ==
    LET w == DerivedWidth(center_months)
        half_width == RatMul(w, Rat(1, 2))
    IN  Return(RangeAround(center_months, half_width))

\* src/1124/诈骗/cal_zp.py: the width is derived only when it is None
months_to_range_zp(center_months, width) ==
    LET w == IF IsNone(width) THEN DerivedWidth(center_months)
             ELSE FromInt(Val(width))
        half_width == RatMul(w, Rat(1, 2))
    IN  Return(RangeAround(center_months, half_width))

MaxCenter == 100    \* largest centre passed, in months
MaxWidth == 9       \* largest width passed

\* centres in steps of half a month; a centre below 0 is what
\* calculate_layered_sentence can hand over
Centers == {Rat(n, 2) : n \in -4 .. 2 * MaxCenter}

Widths == {None} \cup {Some(w) : w \in 0..MaxWidth}

RangeArgs == [center_months : Centers, width : Widths]

InitRange == call = "" /\ args \in RangeArgs /\ ret = <<>>

Call_months_to_range_1111 ==
    /\ call = ""
    /\ call' = "months_to_range_1111"
    /\ ret' = months_to_range_1111(args.center_months, args.width)
    /\ UNCHANGED args

Call_months_to_range_1112 ==
    /\ call = ""
    /\ call' = "months_to_range_1112"
    /\ ret' = months_to_range_1112(args.center_months, args.width)
    /\ UNCHANGED args

Call_months_to_range ==
    /\ call = ""
    /\ call' = "months_to_range"
    /\ ret' = months_to_range(args.center_months, args.width)
    /\ UNCHANGED args

Call_months_to_range_gysh ==
    /\ call = ""
    /\ call' = "months_to_range_gysh"
    /\ ret' = months_to_range_gysh(args.center_months, args.width)
    /\ UNCHANGED args

Call_months_to_range_zp ==
    /\ call = ""
    /\ call' = "months_to_range_zp"
    /\ ret' = months_to_range_zp(args.center_months, args.width)
    /\ UNCHANGED args

NextRange ==
    \/ Call_months_to_range_1111
    \/ Call_months_to_range_1112
    \/ Call_months_to_range
    \/ Call_months_to_range_gysh
    \/ Call_months_to_range_zp

SpecRange == InitRange /\ [][NextRange]_vars

-----------------------------------------------------------------------------
(* Properties of months_to_range *)

RangeCalls == {"months_to_range_1111", "months_to_range_1112", "months_to_range",
               "months_to_range_gysh", "months_to_range_zp"}

IsInteger(x) == x.d = 1

\* [max(1, round(center - w/2)), max(1, round(center + w/2))] for an integer
\* centre c and an integer width w
RangeByFormula(c, w) ==
    <<Max(1, RoundHalfEven(2 * c - w, 2)), Max(1, RoundHalfEven(2 * c + w, 2))>>

\* C14: every variant of months_to_range returns [min, max] with min >= 1,
\* max >= 1 and min <= max, for every centre (0, centres below half the width
\* and centres below 0 included) and every width >= 0, supplied or not.
C14_RangeFloored ==
    call \in RangeCalls
    => /\ Returned(ret)
       /\ ret.value[1] >= 1
       /\ ret.value[2] >= 1
       /\ ret.value[1] <= ret.value[2]

\* a centre below half the width: cal_zp.py with centre 1 and width 4
C14_Witness ==
    /\ call = "months_to_range_zp"
    /\ args.center_months = FromInt(1)
    /\ args.width = Some(4)
    /\ ret = Return(<<1, 3>>)

\* C15: in src/1111/sentencing_calculator.py and src/1112/cal.py,
\* months_to_range(center, width) is [max(1, round(center - width/2)),
\* max(1, round(center + width/2))] for every integer center >= 0 and every
\* integer width >= 0, odd widths included.
C15_RangeFormula1111 ==
    (/\ call \in {"months_to_range_1111", "months_to_range_1112"}
     /\ IsInteger(args.center_months)
     /\ args.center_months.n >= 0
     /\ ~IsNone(args.width))
    => ret = Return(RangeByFormula(args.center_months.n, Val(args.width)))

\* C16: in src/1124/cal.py and src/1124/故意伤害/cal_gysh.py, a supplied width
\* w gives [max(1, round(center - w/2)), max(1, round(center + w/2))], so
\* months_to_range(48, width=4) is [46, 50]; the width derived from the
\* centre is used only when no width is supplied.
C16_SuppliedWidthUsed ==
    (/\ call \in {"months_to_range", "months_to_range_gysh"}
     /\ IsInteger(args.center_months)
     /\ ~IsNone(args.width))
    => /\ ret = Return(RangeByFormula(args.center_months.n, Val(args.width)))
       /\ (args.center_months = FromInt(48) /\ args.width = Some(4))
             => ret = Return(<<46, 50>>)

SymmetryCalls == {"months_to_range_1111", "months_to_range_zp"}

EvenWidthCase ==
    /\ call \in SymmetryCalls
    /\ IsInteger(args.center_months)
    /\ args.center_months.n >= 0
    /\ ~IsNone(args.width)
    /\ Val(args.width) % 2 = 0

-----------------------------------------------------------------------------
(* validate_legal_range *)

\* src/1111/sentencing_calculator.py, src/1111/cal.py and src/1112/cal.py
validate_legal_range_1111(months, min_legal, max_legal) ==
    IF months < min_legal THEN Return(min_legal)
    ELSE IF months > max_legal THEN Return(max_legal)
    ELSE Return(months)

\* a check of the lower limit only
validate_legal_range_lower_only(months, min_legal, max_legal) ==
    IF months < min_legal THEN Return(min_legal)
    ELSE Return(months)

\* src/1124/cal.py and src/1124/故意伤害/cal_gysh.py
validate_legal_range(months, min_legal, max_legal) ==
    IF months < min_legal THEN Return(min_legal)
    ELSE IF months > max_legal THEN Return(max_legal)
    ELSE Return(months)

\* src/1124/诈骗/cal_zp.py: two `if` statements, each with a return
validate_legal_range_zp(months, min_legal, max_legal) ==
    IF months < min_legal THEN Return(min_legal)
    ELSE IF months > max_legal THEN Return(max_legal)
    ELSE Return(months)

MaxMonths == 46     \* largest months value passed

MonthsValues == -1..MaxMonths

\* legal minima and maxima, in months
LegalLimits == {0, 1, 6, 12, 36, 40}

ValidateArgs ==
    [months : MonthsValues, min_legal : LegalLimits, max_legal : LegalLimits]

InitValidate == call = "" /\ args \in ValidateArgs /\ ret = <<>>

Call_validate_legal_range_1111 ==
    /\ call = ""
    /\ call' = "validate_legal_range_1111"
    /\ ret' = validate_legal_range_1111(args.months, args.min_legal, args.max_legal)
    /\ UNCHANGED args

Call_validate_legal_range ==
    /\ call = ""
    /\ call' = "validate_legal_range"
    /\ ret' = validate_legal_range(args.months, args.min_legal, args.max_legal)
    /\ UNCHANGED args

Call_validate_legal_range_zp ==
    /\ call = ""
    /\ call' = "validate_legal_range_zp"
    /\ ret' = validate_legal_range_zp(args.months, args.min_legal, args.max_legal)
    /\ UNCHANGED args

NextValidate ==
    \/ Call_validate_legal_range_1111
    \/ Call_validate_legal_range
    \/ Call_validate_legal_range_zp

SpecValidate == InitValidate /\ [][NextValidate]_vars

-----------------------------------------------------------------------------
(* Properties of validate_legal_range *)

ValidateCalls == {"validate_legal_range_1111", "validate_legal_range",
                  "validate_legal_range_zp"}

\* the variant a call applied, applied to m with the limits of the call
ValidateAgain(m) ==
    IF call = "validate_legal_range_1111"
    THEN validate_legal_range_1111(m, args.min_legal, args.max_legal)
    ELSE IF call = "validate_legal_range"
    THEN validate_legal_range(m, args.min_legal, args.max_legal)
    ELSE validate_legal_range_zp(m, args.min_legal, args.max_legal)

\* C18: with min_legal <= max_legal, validate_legal_range returns
\* max(min_legal, min(months, max_legal)): a value in [min_legal, max_legal]
\* that is months itself when months lies in that interval; it does not
\* raise, and validate_legal_range(45, 6, 36) is 36.
C18_PureClamp ==
    (call \in ValidateCalls /\ args.min_legal <= args.max_legal)
    => /\ Returned(ret)
       /\ ret.value = Max(args.min_legal, Min(args.months, args.max_legal))
       /\ args.min_legal <= ret.value /\ ret.value <= args.max_legal
       /\ (args.min_legal <= args.months /\ args.months <= args.max_legal)
             => ret.value = args.months
       /\ (args.months = 45 /\ args.min_legal = 6 /\ args.max_legal = 36)
             => ret.value = 36

\* Scenario D in src/1124/cal.py
C18_Witness ==
    /\ call = "validate_legal_range"
    /\ args = [months |-> 45, min_legal |-> 6, max_legal |-> 36]
    /\ ret = Return(36)

\* C19: validate_legal_range is idempotent for every integer triple
\* (x, lo, hi), whatever the order of lo and hi: applying it to its own
\* result with the same limits returns that result.
C19_Idempotent ==
    call \in ValidateCalls
    => /\ Returned(ret)
       /\ ValidateAgain(ret.value) = ret

-----------------------------------------------------------------------------
(* Factor tables of src/1112/cal.py and the keyword match *)

LAYER1_FACTORS == <<
  [key |-> <<26410, 25104, 24180, 20154, 65288, 49, 54, 45, 49, 56, 23681, 65289>>,  \* 未成年人（16-18岁）
   name |-> <<26410, 25104, 24180, 20154, 65288, 49, 54, 45, 49, 56, 23681, 65289>>,
   ratio |-> Rat(70, 100)],
  [key |-> <<26410, 25104, 24180, 20154, 65288, 49, 52, 45, 49, 54, 23681, 65289>>,  \* 未成年人（14-16岁）
   name |-> <<26410, 25104, 24180, 20154, 65288, 49, 52, 45, 49, 54, 23681, 65289>>,
   ratio |-> Rat(50, 100)],
  [key |-> <<20174, 29359, 65288, 20316, 29992, 36739, 23567, 65289>>,  \* 从犯（作用较小）
   name |-> <<20174, 29359, 65288, 20316, 29992, 36739, 23567, 65289>>,
   ratio |-> Rat(60, 100)],
  [key |-> <<20174, 29359, 65288, 19968, 33324, 65289>>,  \* 从犯（一般）
   name |-> <<20174, 29359, 65288, 19968, 33324, 65289>>,
   ratio |-> Rat(70, 100)],
  [key |-> <<32961, 20174, 29359>>,  \* 胁从犯
   name |-> <<32961, 20174, 29359>>,
   ratio |-> Rat(40, 100)],
  [key |-> <<29359, 32618, 39044, 22791>>,  \* 犯罪预备
   name |-> <<29359, 32618, 39044, 22791>>,
   ratio |-> Rat(40, 100)],
  [key |-> <<29359, 32618, 20013, 27490, 65288, 33258, 21160, 26377, 25928, 65289>>,  \* 犯罪中止（自动有效）
   name |-> <<29359, 32618, 20013, 27490, 65288, 33258, 21160, 26377, 25928, 65289>>,
   ratio |-> Rat(30, 100)],
  [key |-> <<29359, 32618, 20013, 27490, 65288, 19968, 33324, 65289>>,  \* 犯罪中止（一般）
   name |-> <<29359, 32618, 20013, 27490, 65288, 19968, 33324, 65289>>,
   ratio |-> Rat(40, 100)],
  [key |-> <<29359, 32618, 26410, 36930, 65288, 24847, 24535, 20197, 22806, 65289>>,  \* 犯罪未遂（意志以外）
   name |-> <<29359, 32618, 26410, 36930, 65288, 24847, 24535, 20197, 22806, 65289>>,
   ratio |-> Rat(70, 100)],
  [key |-> <<29359, 32618, 26410, 36930, 65288, 33021, 21147, 19981, 36275, 65289>>,  \* 犯罪未遂（能力不足）
   name |-> <<29359, 32618, 26410, 36930, 65288, 33021, 21147, 19981, 36275, 65289>>,
   ratio |-> Rat(60, 100)],
  [key |-> <<38480, 21046, 21009, 20107, 36131, 20219, 33021, 21147>>,  \* 限制刑事责任能力
   name |-> <<38480, 21046, 21009, 20107, 36131, 20219, 33021, 21147>>,
   ratio |-> Rat(60, 100)],
  [key |-> <<21448, 32843, 21448, 21713, 47, 30450, 20154>>,  \* 又聋又哑/盲人
   name |-> <<21448, 32843, 21448, 21713, 47, 30450, 20154>>,
   ratio |-> Rat(70, 100)],
  [key |-> <<38450, 21355, 36807, 24403>>,  \* 防卫过当
   name |-> <<38450, 21355, 36807, 24403>>,
   ratio |-> Rat(50, 100)]
>>

LAYER2_FACTORS == <<
  [key |-> <<32047, 29359>>,  \* 累犯
   name |-> <<32047, 29359>>,
   adjustment_pct |-> 25],
  [key |-> <<33258, 39318, 65288, 20027, 21160, 25237, 26696, 65289>>,  \* 自首（主动投案）
   name |-> <<33258, 39318, 65288, 20027, 21160, 25237, 26696, 65289>>,
   adjustment_pct |-> -35],
  [key |-> <<33258, 39318, 65288, 25235, 33719, 21518, 65289>>,  \* 自首（抓获后）
   name |-> <<33258, 39318, 65288, 25235, 33719, 21518, 65289>>,
   adjustment_pct |-> -25],
  [key |-> <<22374, 30333>>,  \* 坦白
   name |-> <<22374, 30333>>,
   adjustment_pct |-> -15],
  [key |-> <<35748, 32618, 35748, 32602, 65288, 20855, 32467, 20070, 65289>>,  \* 认罪认罚（具结书）
   name |-> <<35748, 32618, 35748, 32602, 65288, 20855, 32467, 20070, 65289>>,
   adjustment_pct |-> -20],
  [key |-> <<35748, 32618, 35748, 32602, 65288, 21475, 22836, 65289>>,  \* 认罪认罚（口头）
   name |-> <<35748, 32618, 35748, 32602, 65288, 21475, 22836, 65289>>,
   adjustment_pct |-> -15],
  [key |-> <<19968, 33324, 31435, 21151>>,  \* 一般立功
   name |-> <<19968, 33324, 31435, 21151>>,
   adjustment_pct |-> -15],
  [key |-> <<37325, 22823, 31435, 21151>>,  \* 重大立功
   name |-> <<37325, 22823, 31435, 21151>>,
   adjustment_pct |-> -30],
  [key |-> <<36864, 36163, 36864, 36180, 65288, 20840, 37096, 65289>>,  \* 退赃退赔（全部）
   name |-> <<36864, 36163, 36864, 36180, 65288, 20840, 37096, 65289>>,
   adjustment_pct |-> -25],
  [key |-> <<36864, 36163, 36864, 36180, 65288, 37096, 20998, 65289>>,  \* 退赃退赔（部分）
   name |-> <<36864, 36163, 36864, 36180, 65288, 37096, 20998, 65289>>,
   adjustment_pct |-> -15],
  [key |-> <<21462, 24471, 35845, 35299>>,  \* 取得谅解
   name |-> <<21462, 24471, 35845, 35299>>,
   adjustment_pct |-> -20],
  [key |-> <<21009, 20107, 21644, 35299>>,  \* 刑事和解
   name |-> <<21009, 20107, 21644, 35299>>,
   adjustment_pct |-> -35],
  [key |-> <<26377, 21069, 31185, 65288, 21516, 31867, 65289>>,  \* 有前科（同类）
   name |-> <<26377, 21069, 31185, 65288, 21516, 31867, 65289>>,
   adjustment_pct |-> 20],
  [key |-> <<26377, 21069, 31185, 65288, 20854, 20182, 65289>>,  \* 有前科（其他）
   name |-> <<26377, 21069, 31185, 65288, 20854, 20182, 65289>>,
   adjustment_pct |-> 15],
  [key |-> <<22810, 27425, 29359, 32618, 65288, 51, 27425, 43, 65289>>,  \* 多次犯罪（3次+）
   name |-> <<22810, 27425, 29359, 32618, 65288, 51, 27425, 43, 65289>>,
   adjustment_pct |-> 25],
  [key |-> <<22810, 27425, 29359, 32618, 65288, 50, 27425, 65289>>,  \* 多次犯罪（2次）
   name |-> <<22810, 27425, 29359, 32618, 65288, 50, 27425, 65289>>,
   adjustment_pct |-> 15],
  [key |-> <<36896, 25104, 20005, 37325, 21518, 26524>>,  \* 造成严重后果
   name |-> <<36896, 25104, 20005, 37325, 21518, 26524>>,
   adjustment_pct |-> 35]
>>

NameGeneral == <<19968, 33324, 24773, 33410>>    \* "一般情节"
ReasonDefault == <<26410, 21305, 37197, 21040, 20855, 20307, 24773, 33410, 65292, 20351, 29992, 40664, 35748, 20540>>    \* "未匹配到具体情节，使用默认值"

\* f"匹配到'{key}'"
MatchReason(key) == <<21305, 37197, 21040, 39>> \o key \o <<39>>

\* the loop of the two match functions, read backwards: the index of the
\* last entry of the table whose key the description contains, 0 if none
RECURSIVE FirstMatch_last(_, _, _)
FirstMatch_last(table, description, i) ==
    LET j == Len(table) + 1 - i
    IN  IF i > Len(table) THEN 0
        ELSE IF IsSubstring(table[j].key, description) THEN j
        ELSE FirstMatch_last(table, description, i + 1)

\* `for key, factor in TABLE.items(): if key in description: return ...`:
\* the index of the first entry from i on whose key the description
\* contains, 0 if none
RECURSIVE FirstMatch(_, _, _)
FirstMatch(table, description, i) ==
    IF i > Len(table) THEN 0
    ELSE IF IsSubstring(table[i].key, description) THEN i
    ELSE FirstMatch(table, description, i + 1)

\* lines 51-70
match_layer1_factor(description) ==
    LET i == FirstMatch(LAYER1_FACTORS, description, 1)
    IN  IF i # 0
        THEN Return([name |-> LAYER1_FACTORS[i].name,
                     ratio |-> LAYER1_FACTORS[i].ratio,
                     match_reason |-> MatchReason(LAYER1_FACTORS[i].key)])
        ELSE Return([name |-> NameGeneral,
                     ratio |-> FromInt(1),
                     match_reason |-> ReasonDefault])

\* lines 72-91
match_layer2_factor(description) ==
    LET i == FirstMatch(LAYER2_FACTORS, description, 1)
    IN  IF i # 0
        THEN Return([name |-> LAYER2_FACTORS[i].name,
                     adjustment_pct |-> LAYER2_FACTORS[i].adjustment_pct,
                     match_reason |-> MatchReason(LAYER2_FACTORS[i].key)])
        ELSE Return([name |-> NameGeneral,
                     adjustment_pct |-> 0,
                     match_reason |-> ReasonDefault])

FactorKeys == KeysOf(LAYER1_FACTORS) \cup KeysOf(LAYER2_FACTORS)

Comma == <<65292>>    \* "，"

\* descriptions: every key alone, every two different keys joined by a
\* comma in both orders, the empty string, a key without its parenthesis
\* ("从犯") and a text without any key ("无")
Descriptions ==
    FactorKeys
    \cup {p[1] \o Comma \o p[2] : p \in {q \in FactorKeys \X FactorKeys : q[1] # q[2]}}
    \cup {<<>>, <<20174, 29359>>, <<26080>>}

InitMatch == call = "" /\ args \in [description : Descriptions] /\ ret = <<>>

Call_match_layer1_factor ==
    /\ call = ""
    /\ call' = "match_layer1_factor"
    /\ ret' = match_layer1_factor(args.description)
    /\ UNCHANGED args

Call_match_layer2_factor ==
    /\ call = ""
    /\ call' = "match_layer2_factor"
    /\ ret' = match_layer2_factor(args.description)
    /\ UNCHANGED args

NextMatch ==
    \/ Call_match_layer1_factor
    \/ Call_match_layer2_factor

SpecMatch == InitMatch /\ [][NextMatch]_vars

-----------------------------------------------------------------------------
(* Properties of the keyword match *)

\* the indices of the entries whose key the description contains
Matches(table, description) ==
    {i \in 1..Len(table) : IsSubstring(table[i].key, description)}

Earliest(S) == CHOOSE i \in S : \A j \in S : i <= j

\* the returned entry is the earliest matching entry of the table and no
\* later matching one; without a match the name is the default name
FirstEntryReturned(table) ==
    LET S == Matches(table, args.description)
    IN  /\ Returned(ret)
        /\ S = {} => ret.value.name = NameGeneral
        /\ S # {} =>
              /\ ret.value.name = table[Earliest(S)].name
              /\ ret.value.match_reason = MatchReason(table[Earliest(S)].key)
              /\ \A j \in S \ {Earliest(S)} : ret.value.name # table[j].name

\* C20: in src/1112/cal.py, match_layer1_factor and match_layer2_factor
\* return the first entry, in the declared order of LAYER1_FACTORS and
\* LAYER2_FACTORS, whose key is a substring of the description; with several
\* keys in one description the earliest entry of the table is returned, with
\* its own ratio or percentage, and no later one.
C20_FirstMatchWins ==
    /\ call = "match_layer1_factor"
          => /\ FirstEntryReturned(LAYER1_FACTORS)
             /\ Matches(LAYER1_FACTORS, args.description) # {}
                   => ret.value.ratio =
                         LAYER1_FACTORS[Earliest(Matches(LAYER1_FACTORS,
                                                         args.description))].ratio
    /\ call = "match_layer2_factor"
          => /\ FirstEntryReturned(LAYER2_FACTORS)
             /\ Matches(LAYER2_FACTORS, args.description) # {}
                   => ret.value.adjustment_pct =
                         LAYER2_FACTORS[Earliest(Matches(LAYER2_FACTORS,
                                                         args.description))].adjustment_pct

\* "坦白，累犯": 坦白 comes first in the text, 累犯 first in the table
C20_Witness ==
    /\ call = "match_layer2_factor"
    /\ args.description = LAYER2_FACTORS[4].key \o Comma \o LAYER2_FACTORS[1].key
    /\ Cardinality(Matches(LAYER2_FACTORS, args.description)) = 2
    /\ ret.value.name = LAYER2_FACTORS[1].name
    /\ ret.value.adjustment_pct = 25

-----------------------------------------------------------------------------
(* src/1112/cal.py: execute_tool_call("calculate_layered_sentence_deterministic") *)

\* mutant: descriptions without a key are skipped
MatchAll1_matched_only(descriptions) ==
    LET matched == SelectSeq(descriptions,
                             LAMBDA d : FirstMatch(LAYER1_FACTORS, d, 1) # 0)
    IN  [i \in 1..Len(matched) |-> match_layer1_factor(matched[i]).value]

\* `for desc in layer1_descriptions: matched = calculator.match_layer1_factor(desc)`
MatchAll1(descriptions) ==
    [i \in 1..Len(descriptions) |-> match_layer1_factor(descriptions[i]).value]

\* `for desc in layer2_descriptions: matched = calculator.match_layer2_factor(desc)`
MatchAll2(descriptions) ==
    [i \in 1..Len(descriptions) |-> match_layer2_factor(descriptions[i]).value]

\* the branch of execute_tool_call for "calculate_layered_sentence_deterministic";
\* the JSON document it returns is modelled by the dict that is serialised,
\* the f-strings of the two matching lists by the values they format
\* ({pct:+} by the signed integer)
execute_tool_call_deterministic(base_months, layer1_descriptions, layer2_descriptions) ==
    LET matched1 == MatchAll1(layer1_descriptions)
        matched2 == MatchAll2(layer2_descriptions)
        layer1_factors ==
            [i \in 1..Len(matched1) |->
                [name |-> matched1[i].name, ratio |-> matched1[i].ratio]]
        layer2_factors ==
            [i \in 1..Len(matched2) |->
                [name |-> matched2[i].name,
                 ratio |-> RatAdd(FromInt(1), Rat(matched2[i].adjustment_pct, 100))]]
        result == calculate_layered_sentence(base_months, layer1_factors, layer2_factors)
    IN  [final_months |-> result.final_months,
         calculation_steps |-> result.calculation_steps,
         formula |-> result.formula,
         layer1_matching |-> matched1,
         layer2_matching |-> matched2]

MaxDescriptions == 2    \* longest list of descriptions

\* descriptions a model passes: a Tier-1 key ("从犯（一般）"), a Tier-2 key
\* ("坦白"), a key without its parenthesis ("从犯") and a text without any
\* key ("无")
ToolDescriptions ==
    {LAYER1_FACTORS[4].key, LAYER2_FACTORS[4].key, <<20174, 29359>>, <<26080>>}

ToolArgs ==
    [base_months : {12, 36},
     layer1_descriptions : SeqUpTo(ToolDescriptions, MaxDescriptions),
     layer2_descriptions : SeqUpTo(ToolDescriptions, MaxDescriptions)]

InitTool == call = "" /\ args \in ToolArgs /\ ret = <<>>

Call_execute_tool_call_deterministic ==
    /\ call = ""
    /\ call' = "calculate_layered_sentence_deterministic"
    /\ ret' = execute_tool_call_deterministic(args.base_months,
                  args.layer1_descriptions, args.layer2_descriptions)
    /\ UNCHANGED args

NextTool == Call_execute_tool_call_deterministic

SpecTool == InitTool /\ [][NextTool]_vars

-----------------------------------------------------------------------------
(* Properties of the deterministic tool call *)

\* the entries of the trace of the given kind, in the order of the trace
StepsOfKind(steps, kind) == SelectSeq(steps, LAMBDA s : s.kind = kind)

\* the descriptions that contain a key of the table, in input order
MatchedOnly(table, descriptions) ==
    SelectSeq(descriptions, LAMBDA d : Matches(table, d) # {})

\* C21: in src/1112/cal.py a description that contains no key of the table
\* gets the neutral entry (name "一般情节", ratio 1.0 resp. 0 %, the no-match
\* reason) and nothing is raised; in the deterministic tool call every
\* description yields exactly one factor, in input order, in the matching
\* list and in calculation_steps, and the unmatched descriptions leave
\* final_months as it is without them.
C21_OneFactorPerDescription ==
    call = "calculate_layered_sentence_deterministic" =>
        LET d1 == args.layer1_descriptions
            d2 == args.layer2_descriptions
            s1 == StepsOfKind(ret.calculation_steps, "layer1")
            s2 == StepsOfKind(ret.calculation_steps, "layer2")
        IN  /\ "error" \notin DOMAIN ret
            /\ Len(ret.layer1_matching) = Len(d1) /\ Len(s1) = Len(d1)
            /\ Len(ret.layer2_matching) = Len(d2) /\ Len(s2) = Len(d2)
            /\ \A i \in 1..Len(d1) :
                  LET S == Matches(LAYER1_FACTORS, d1[i])
                  IN  /\ s1[i].name = ret.layer1_matching[i].name
                      /\ s1[i].ratio = ret.layer1_matching[i].ratio
                      /\ S # {} => ret.layer1_matching[i].name
                                       = LAYER1_FACTORS[Earliest(S)].name
                      /\ S = {} => /\ ret.layer1_matching[i].name = NameGeneral
                                   /\ ret.layer1_matching[i].ratio = FromInt(1)
                                   /\ ret.layer1_matching[i].match_reason = ReasonDefault
            /\ \A i \in 1..Len(d2) :
                  LET S == Matches(LAYER2_FACTORS, d2[i])
                  IN  /\ s2[i].name = ret.layer2_matching[i].name
                      /\ s2[i].pct = ret.layer2_matching[i].adjustment_pct
                      /\ S # {} => ret.layer2_matching[i].name
                                       = LAYER2_FACTORS[Earliest(S)].name
                      /\ S = {} => /\ ret.layer2_matching[i].name = NameGeneral
                                   /\ ret.layer2_matching[i].adjustment_pct = 0
                                   /\ ret.layer2_matching[i].match_reason = ReasonDefault
            /\ ret.final_months =
                  execute_tool_call_deterministic(args.base_months,
                      MatchedOnly(LAYER1_FACTORS, d1),
                      MatchedOnly(LAYER2_FACTORS, d2)).final_months

\* 36 months, Tier 1 <<"从犯", "从犯（一般）">>, Tier 2 <<"无", "坦白">>: the
\* first description of each list has no key
C21_Witness ==
    /\ call = "calculate_layered_sentence_deterministic"
    /\ args.base_months = 36
    /\ args.layer1_descriptions = <<(<<20174, 29359>>), LAYER1_FACTORS[4].key>>
    /\ args.layer2_descriptions = <<(<<26080>>), LAYER2_FACTORS[4].key>>
    /\ ret.layer1_matching[1].name = NameGeneral
    /\ ret.layer1_matching[2].name = LAYER1_FACTORS[4].name
    /\ ret.layer2_matching[1].adjustment_pct = 0
    /\ ret.layer2_matching[2].adjustment_pct = LAYER2_FACTORS[4].adjustment_pct
    /\ Len(ret.calculation_steps) = 7

-----------------------------------------------------------------------------
(* src/1124/cal.py: the constraints named by the tool description *)

\* lines 455-495; the function is defined and never called
_get_legal_range(crime_type, amount, injury_level) ==
    IF crime_type = CrimeTheft
    THEN IF amount < 30000 THEN <<6, 36>>
         ELSE IF amount < 300000 THEN <<36, 120>>
         ELSE <<120, 180>>
    ELSE IF crime_type = CrimeFraud
    THEN IF amount < 30000 THEN <<6, 36>>
         ELSE IF amount < 500000 THEN <<36, 120>>
         ELSE <<120, 180>>
    ELSE IF crime_type = CrimeInjury
    THEN IF injury_level = Some(InjuryMinor1) THEN <<6, 36>>
         ELSE IF injury_level = Some(InjuryMinor2) THEN <<1, 36>>
         ELSE IF injury_level = Some(InjurySerious1) THEN <<72, 120>>
         ELSE IF injury_level = Some(InjurySerious2) THEN <<36, 96>>
         ELSE IF injury_level = Some(InjuryCausedDeath) THEN <<120, 180>>
         ELSE IF injury_level = Some(InjuryDeath) THEN <<120, 180>>
         ELSE <<1, 180>>
    ELSE <<6, 120>>

\* crime_type, amount and injury_level of the tool schema (lines 751-763);
\* calculate_layered_sentence_with_constraints accepts them and reads none
ConstraintCrimes == {CrimeTheft, CrimeFraud, CrimeInjury}
ConstraintAmounts == {0, 5000, 30000, 300000, 500000}
ConstraintInjuries == {None} \cup {Some(k) : k \in InjuryKeys}

\* C22: calculate_layered_sentence_with_constraints of src/1124/cal.py
\* returns final_months of at least 0.5 x base_months (no more than a 50 %
\* reduction) and of at least the lower bound of _get_legal_range(crime_type,
\* amount, injury_level), for every crime, amount and injury level whose
\* legal range contains base_months.
C22_ConstraintsEnforced ==
    call = "calculate_layered_sentence_with_constraints" =>
        /\ RatLe(Rat(args.base_months, 2), ret.final_months)
        /\ \A crime_type \in ConstraintCrimes, amount \in ConstraintAmounts,
              injury_level \in ConstraintInjuries :
              LET range == _get_legal_range(crime_type, amount, injury_level)
              IN  range[1] <= args.base_months /\ args.base_months <= range[2]
                     => RatLe(FromInt(range[1]), ret.final_months)

-----------------------------------------------------------------------------
(* Properties of the calculation trace of src/1124/cal.py *)

\* n entries of one kind
Repeat(kind, n) == [i \in 1..n |-> kind]

\* C23: calculation_steps of calculate_layered_sentence_with_constraints
\* (src/1124/cal.py) is, in this order: one base entry; one entry per Tier-1
\* factor in input order; a Tier-1 subtotal iff the Tier-1 list is not empty;
\* one entry per Tier-2 factor in input order; a Tier-2 subtotal iff the
\* Tier-2 list is not empty; the clamp entries last, iff the value was below
\* 1.  No factor is left out, repeated or moved.
C23_TraceOrder ==
    call = "calculate_layered_sentence_with_constraints" =>
        LET steps == ret.calculation_steps
            f1 == args.layer1_factors
            f2 == args.layer2_factors
            s1 == StepsOfKind(steps, "layer1")
            s2 == StepsOfKind(steps, "layer2")
        IN  /\ KindsOf(steps) =
                  <<"base">>
                  \o Repeat("layer1", Len(f1))
                  \o (IF f1 # <<>> THEN <<"layer1_result">> ELSE <<>>)
                  \o Repeat("layer2", Len(f2))
                  \o (IF f2 # <<>> THEN <<"layer2_result">> ELSE <<>>)
                  \o (IF RatLt(ret.unrounded, FromInt(1))
                      THEN <<"clamp", "clamp_to">> ELSE <<>>)
            /\ steps[1].months = args.base_months
            /\ \A i \in 1..Len(f1) :
                  s1[i].name = FactorName(f1[i]) /\ s1[i].ratio = f1[i].ratio
            /\ \A i \in 1..Len(f2) :
                  /\ s2[i].name = FactorName(f2[i])
                  /\ s2[i].pct = Round0(RatMul(RatSub(f2[i].ratio, FromInt(1)),
                                               FromInt(100)))

\* 1 month, 未成年人 0.5 then 从犯 0.8, 累犯 +30 % then 自首 -10 %: 0.48 month,
\* raised to 1; nine entries, every part of the trace present
C23_Witness ==
    /\ call = "calculate_layered_sentence_with_constraints"
    /\ args.base_months = 1
    /\ PlainNames(args.layer1_factors) = <<"weichengnianren", "congfan">>
    /\ PlainNames(args.layer2_factors) = <<"leifan", "zishou">>
    /\ Len(ret.calculation_steps) = 9
    /\ ret.calculation_steps[2].name = "weichengnianren"
    /\ ret.calculation_steps[6].name = "zishou"
    /\ ret.calculation_steps[9].kind = "clamp_to"
    /\ ret.final_months = FromInt(1)

\* C24: every per-factor entry of the trace carries the running subtotal: a
\* Tier-1 entry shows the factor name, its ratio and the running product
\* after that factor; a Tier-2 entry shows the factor name, its signed
\* percentage and the running sum of percentages after that factor
\* (src/1124/cal.py and src/1111/sentencing_calculator.py).
C24_RunningSubtotals ==
    call \in {"calculate_layered_sentence",
              "calculate_layered_sentence_with_constraints"} =>
        LET f1 == args.layer1_factors
            f2 == args.layer2_factors
            s1 == StepsOfKind(ret.calculation_steps, "layer1")
            s2 == StepsOfKind(ret.calculation_steps, "layer2")
        IN  /\ \A i \in 1..Len(s1) :
                  /\ DOMAIN s1[i] = {"kind", "name", "ratio", "running_product"}
                  /\ s1[i].running_product = Layer1Multiplier(f1, i)
            /\ \A i \in 1..Len(s2) :
                  /\ DOMAIN s2[i] = {"kind", "name", "sign", "pct", "running_sum"}
                  /\ s2[i].running_sum = Layer2Adjustment(f2, i)

-----------------------------------------------------------------------------
(* Properties of the fraud base of src/1124/诈骗/cal_zp.py *)

\* the base lies in the range of the bracket of amount A under the thresholds
InFraudBracket(base, A, fraud_std) ==
    /\ A < fraud_std.large => base = 6
    /\ (fraud_std.large <= A /\ A < fraud_std.huge) => (6 <= base /\ base <= 36)
    /\ (fraud_std.huge <= A /\ A < fraud_std.especially_huge)
          => (36 <= base /\ base <= 120)
    /\ fraud_std.especially_huge <= A => (120 <= base /\ base <= 160)
    /\ 2 * fraud_std.especially_huge <= A => base = 160
    /\ base <= 160

\* C25: in src/1124/诈骗/cal_zp.py, for 诈骗罪, every amount (None taken as 0)
\* and every region, calculate_base_sentence returns 6 below `large`, a value
\* in [6, 36] for large <= amount < huge, in [36, 120] for huge <= amount <
\* especially_huge and in [120, 160] from especially_huge on, 160 once
\* amount >= 2 x especially_huge, and never more than 160.
C25_FraudBrackets ==
    (call = "calculate_base_sentence_zp" /\ args.crime_type = CrimeFraud) =>
        /\ Returned(ret)
        /\ InFraudBracket(ret.value, OrZero(args.amount),
                          get_standards_by_region(args.region).fraud)

-----------------------------------------------------------------------------
(* A session of calculator calls on shared objects (src/1124/cal.py,        *)
(* src/1112/cal.py).  Here `args` holds the objects that outlive a call:   *)
(* the class attributes and the two factor lists the caller built; `ret`   *)
(* is the log of the calls made, `call` the operation called last.         *)

MaxCalls == 3       \* calls of one session

\* the class attributes as declared
DeclaredTables ==
    [REGIONAL_STANDARDS |-> REGIONAL_STANDARDS,
     LAYER1_FACTORS |-> LAYER1_FACTORS,
     LAYER2_FACTORS |-> LAYER2_FACTORS]

\* the factor lists a caller builds once and passes to several calls
CallerLists1 == {<<>>, <<[name |-> "weichengnianren", ratio |-> Rat(50, 100)],
                         [name |-> "congfan", ratio |-> Rat(80, 100)]>>}
CallerLists2 == {<<>>, <<[name |-> "leifan", ratio |-> Rat(130, 100)],
                         [name |-> "zishou", ratio |-> Rat(90, 100)]>>}

\* mutant: the loop consumes the caller's list (`while factors: factors.pop(0)`)
ListAfterLoop_consumed(factors) == <<>>

\* `for factor in layer1_factors:` / `for factor in layer2_factors:` read the
\* caller's list and assign to no element of it
ListAfterLoop(factors) == factors

\* the class attributes after a call: every method is a @staticmethod that
\* reads them through SentencingCalculator.<NAME> and assigns to none
TablesAfterCall(tables) == tables

InitSession ==
    /\ call = ""
    /\ args \in [tables : {DeclaredTables},
                 layer1_factors : CallerLists1, layer2_factors : CallerLists2,
                 built1 : CallerLists1, built2 : CallerLists2]
    /\ args.built1 = args.layer1_factors /\ args.built2 = args.layer2_factors
    /\ ret = <<>>

\* one more call in the log; what the call leaves of the shared objects
Logged(op, input, result, lists_read) ==
    /\ Len(ret) < MaxCalls
    /\ call' = op
    /\ ret' = Append(ret, [op |-> op, input |-> input, result |-> result])
    /\ args' = [args EXCEPT
                  !.tables = TablesAfterCall(@),
                  !.layer1_factors = IF lists_read THEN ListAfterLoop(@) ELSE @,
                  !.layer2_factors = IF lists_read THEN ListAfterLoop(@) ELSE @]

Session_calculate_base_sentence ==
    \E crime_type \in {CrimeTheft, CrimeInjury}, amount \in {Some(3631)},
       region \in {KeyDefault, RegionBeijing} :
        Logged("calculate_base_sentence", <<crime_type, amount, region>>,
               calculate_base_sentence(crime_type, amount, None, region, None),
               FALSE)

Session_calculate_layered_sentence_with_constraints ==
    \E base_months \in {12, 100} :
        Logged("calculate_layered_sentence_with_constraints",
               <<base_months, args.layer1_factors, args.layer2_factors>>,
               calculate_layered_sentence_with_constraints(
                   base_months, args.layer1_factors, args.layer2_factors),
               TRUE)

Session_months_to_range ==
    \E center_months \in {12, 48} :
        Logged("months_to_range", <<center_months>>,
               months_to_range(FromInt(center_months), None), FALSE)

Session_validate_legal_range ==
    \E months \in {3, 45} :
        Logged("validate_legal_range", <<months, 6, 36>>,
               validate_legal_range(months, 6, 36), FALSE)

Session_match_layer1_factor ==
    \E description \in {LAYER1_FACTORS[4].key, <<26080>>} :
        Logged("match_layer1_factor", <<description>>,
               match_layer1_factor(description), FALSE)

Session_match_layer2_factor ==
    \E description \in {LAYER2_FACTORS[4].key} :
        Logged("match_layer2_factor", <<description>>,
               match_layer2_factor(description), FALSE)

NextSession ==
    \/ Session_calculate_base_sentence
    \/ Session_calculate_layered_sentence_with_constraints
    \/ Session_months_to_range
    \/ Session_validate_legal_range
    \/ Session_match_layer1_factor
    \/ Session_match_layer2_factor

SpecSession == InitSession /\ [][NextSession]_vars

-----------------------------------------------------------------------------
(* The batch loop: process_all_data and process_fact_data of                 *)
(* src/1111/predict_fact_llm_function_call.py, process_all_data of          *)
(* src/1124/诈骗/pre1125_zp.py.  Here `args` holds the input items with what *)
(* the two prediction steps do for each, and the loop counter; `ret` is    *)
(* the list `results`; `call` is "" until the function returns.            *)

MaxItems == 3       \* items of one batch

TheftLarge == <<30423, 31363, 25968, 39069, 36739, 22823>>    \* "盗窃数额较大"
FraudLarge == <<35784, 39575, 25968, 39069, 36739, 22823>>    \* "诈骗数额较大"

BatchFunctions == {"process_all_data", "process_fact_data", "process_all_data_zp"}

\* the answer1 of the except clause
FallbackAnswer1(function) ==
    IF function = "process_all_data_zp" THEN <<FraudLarge>> ELSE <<TheftLarge>>

\* what the try block does for an item: both steps return; step 1 raises;
\* step 2 raises; or both return and the print after them raises
Outcomes == {"returns", "task1_raises", "task2_raises", "raises_after_task2"}

\* ranges predict_task2_with_tools returns
PredictedRanges == {<<6, 12>>, <<44, 52>>}

\* an item of a batch, by what the steps do for it; the id of the i-th item
\* is taken to be i
BatchItems == [outcome : Outcomes, range : PredictedRanges]

\* mutant: the except clause keeps the answer as it is
OrFallback_kept(answer, fallback) == answer

\* `answer2 if answer2 else [6, 12]`
OrFallback(answer, fallback) == IF answer # <<>> THEN answer ELSE fallback

\* answer1 and answer2 after the try statement of the loop body
AnswersFor(function, item) ==
    LET predicted1 == IF item.outcome = "task1_raises" THEN <<>> ELSE <<TheftLarge>>
        predicted2 == IF item.outcome \in {"task1_raises", "task2_raises"}
                      THEN <<>> ELSE item.range
    IN  IF item.outcome = "returns"
        THEN [answer1 |-> predicted1, answer2 |-> predicted2]
        ELSE [answer1 |-> OrFallback(predicted1, FallbackAnswer1(function)),
              answer2 |-> OrFallback(predicted2, <<6, 12>>)]

InitBatch ==
    /\ call = ""
    /\ args \in [function : BatchFunctions,
                 items : SeqUpTo(BatchItems, MaxItems),
                 idx : {0}]
    /\ ret = <<>>

\* one pass of `for idx, item in enumerate(...)`: the try statement, the
\* append, the periodic _save_results (which catches its IOError)
ProcessItem ==
    /\ call = ""
    /\ args.idx < Len(args.items)
    /\ LET item == args.items[args.idx + 1]
           answers == AnswersFor(args.function, item)
       IN  ret' = Append(ret, [id |-> args.idx + 1,
                               answer1 |-> answers.answer1,
                               answer2 |-> answers.answer2])
    /\ args' = [args EXCEPT !.idx = @ + 1]
    /\ UNCHANGED call

\* the loop is over: the final _save_results and `return results`
ReturnResults ==
    /\ call = ""
    /\ args.idx = Len(args.items)
    /\ call' = args.function
    /\ UNCHANGED <<args, ret>>

NextBatch == ProcessItem \/ ReturnResults

SpecBatch == InitBatch /\ [][NextBatch]_vars

\* C27: in process_all_data and process_fact_data, after n items have been
\* processed the result list holds exactly n records, in input order, each
\* with a non-empty answer2; when a prediction step raises for an item its
\* answer2 is the fallback [6, 12], unless a range had been computed before
\* the exception, and the remaining items are still processed: the function
\* returns one record per input item.
C27_BatchComplete ==
    /\ Len(ret) = args.idx
    /\ \A i \in 1..Len(ret) :
          /\ ret[i].id = i
          /\ ret[i].answer2 # <<>>
          /\ args.items[i].outcome \in {"task1_raises", "task2_raises"}
                => ret[i].answer2 = <<6, 12>>
          /\ args.items[i].outcome \in {"returns", "raises_after_task2"}
                => ret[i].answer2 = args.items[i].range
    /\ call # "" => Len(ret) = Len(args.items)

\* three items, step 2 raising for the first and step 1 for the second
C27_Witness ==
    /\ call = "process_fact_data"
    /\ Len(args.items) = 3
    /\ args.items[1].outcome = "task2_raises"
    /\ args.items[2].outcome = "task1_raises"
    /\ args.items[3] = [outcome |-> "returns", range |-> <<44, 52>>]
    /\ ret[1].answer2 = <<6, 12>>
    /\ ret[2].answer1 = <<TheftLarge>>
    /\ ret[3].answer2 = <<44, 52>>

-----------------------------------------------------------------------------
(* The tool loop: predict_task2_with_tools of                               *)
(* src/1111/predict_fact_llm_function_call.py (the same loop in             *)
(* src/1124/故意伤害/pre1121_gysh.py).  Here `args` holds the loop counter,   *)
(* the local final_range and, to state the property, the set of ranges the *)
(* months_to_range tool has returned so far; `ret` is the returned range;  *)
(* `call` is "" until the function returns.                                *)

max_iterations == 10

MaxToolCalls == 2   \* tool calls in one message of the model

FallbackRange == <<6, 12>>

\* ranges months_to_range returns during a call
ToolRanges == {<<44, 52>>, <<9, 13>>}

\* what a tool call of a message does: months_to_range returning a range,
\* months_to_range returning an error document, or another tool
ToolCalls ==
    {[name |-> "months_to_range", range |-> Some(r)] : r \in ToolRanges}
    \cup {[name |-> "months_to_range", range |-> None],
          [name |-> "calculate_base_sentence", range |-> None]}

\* the content of a message without tool calls: no "[a, b]" in it, or the
\* first "[a, b]" the regular expression finds
FinalMessages == {None, Some(<<24, 36>>), Some(<<44, 52>>)}

\* `for tool_call in assistant_message.tool_calls`: final_range after the
\* calls, the last months_to_range result with a "range" key if there is one
RECURSIVE AfterToolCalls(_, _)
AfterToolCalls(final_range, tool_calls) ==
    IF tool_calls = <<>> THEN final_range
    ELSE AfterToolCalls(
             IF Head(tool_calls).name = "months_to_range"
                /\ ~IsNone(Head(tool_calls).range)
             THEN Head(tool_calls).range
             ELSE final_range,
             Tail(tool_calls))

\* the ranges the months_to_range tool returned in these calls
RangesOf(tool_calls) ==
    {Val(tool_calls[i].range) :
        i \in {j \in 1..Len(tool_calls) : ~IsNone(tool_calls[j].range)}}

InitLoop ==
    /\ call = ""
    /\ args = [iteration |-> 0, final_range |-> None, computed |-> {}]
    /\ ret = <<>>

Returns(range) ==
    /\ call' = "predict_task2_with_tools"
    /\ ret' = range

\* a turn whose message carries tool calls: each is executed, then the loop
\* goes on
TurnToolCalls ==
    /\ call = ""
    /\ args.iteration < max_iterations
    /\ \E tool_calls \in SeqUpTo(ToolCalls, MaxToolCalls) \ {<<>>} :
          args' = [iteration |-> args.iteration + 1,
                   final_range |-> AfterToolCalls(args.final_range, tool_calls),
                   computed |-> args.computed \cup RangesOf(tool_calls)]
    /\ UNCHANGED <<call, ret>>

\* a turn whose message carries no tool call: the first "[a, b]" of its text
\* becomes final_range; without one the earlier final_range stands, and
\* without either the fallback is returned
TurnFinalMessage ==
    /\ call = ""
    /\ args.iteration < max_iterations
    /\ \E content \in FinalMessages :
          LET final_range == IF ~IsNone(content) THEN content ELSE args.final_range
          IN  /\ args' = [args EXCEPT !.iteration = @ + 1,
                                      !.final_range = final_range]
              /\ Returns(IF ~IsNone(final_range) THEN Val(final_range)
                         ELSE FallbackRange)

\* a turn in which the request, the parsing of the arguments or a tool
\* raises: `except Exception: return [6, 12]`
TurnError ==
    /\ call = ""
    /\ args.iteration < max_iterations
    /\ args' = [args EXCEPT !.iteration = @ + 1]
    /\ Returns(FallbackRange)

\* the for loop ran max_iterations times
LoopExhausted ==
    /\ call = ""
    /\ args.iteration = max_iterations
    /\ Returns(IF ~IsNone(args.final_range) THEN Val(args.final_range)
               ELSE FallbackRange)
    /\ UNCHANGED args

NextLoop == TurnToolCalls \/ TurnFinalMessage \/ TurnError \/ LoopExhausted

SpecLoop == InitLoop /\ [][NextLoop]_vars

\* C28: predict_task2_with_tools ends after at most 10 model turns, and the
\* range it returns is one the months_to_range tool computed during the
\* call, or the fallback [6, 12]: numbers in the final message of the model
\* never determine it.
C28_RangeFromTool ==
    /\ args.iteration <= max_iterations
    /\ call = "predict_task2_with_tools"
          => ret \in args.computed \cup {FallbackRange}

-----------------------------------------------------------------------------
(* src/1124/诈骗/pre1125_zp.py: _postprocess_fraud_factors *)

\* the characters str.strip() removes
Whitespace ==
    {9, 10, 11, 12, 13, 28, 29, 30, 31, 32, 133, 160, 5760, 8232, 8233, 8239,
     8287, 12288} \cup 8192..8202

\* f.strip()
RECURSIVE Strip(_)
Strip(f) ==
    IF f = <<>> THEN f
    ELSE IF Head(f) \in Whitespace THEN Strip(Tail(f))
    ELSE IF f[Len(f)] \in Whitespace THEN Strip(SubSeq(f, 1, Len(f) - 1))
    ELSE f

\* f.startswith(prefix)
StartsWith(f, prefix) ==
    Len(f) >= Len(prefix) /\ SubSeq(f, 1, Len(prefix)) = prefix

TagRecidivist == <<32047, 29359>>    \* "累犯"
TagPriorRecord == <<21069, 31185>>    \* "前科"
TagMultiFraud == <<22810, 27425, 35784, 39575>>    \* "多次诈骗"
PrefixFraudCount == <<35784, 39575, 27425, 25968>>    \* "诈骗次数"
PrefixAmountDone == <<35784, 39575, 37329, 39069, 26082, 36930>>    \* "诈骗金额既遂"
PrefixAmountAttempt == <<35784, 39575, 37329, 39069, 26410, 36930>>    \* "诈骗金额未遂"
Yuan == <<20803>>    \* "元"
WanYuan == <<19975, 20803>>    \* "万元"

allowed_exact ==
    {<<35784, 39575, 25968, 39069, 36739, 22823>>,    \* 诈骗数额较大
     <<35784, 39575, 25968, 39069, 24040, 22823>>,    \* 诈骗数额巨大
     <<35784, 39575, 25968, 39069, 29305, 21035, 24040, 22823>>,    \* 诈骗数额特别巨大
     <<30005, 20449, 32593, 32476, 35784, 39575>>,    \* 电信网络诈骗
     <<33258, 39318>>,    \* 自首
     <<22374, 30333>>,    \* 坦白
     <<35748, 32618, 35748, 32602>>,    \* 认罪认罚
     <<24403, 24237, 33258, 24895, 35748, 32618>>,    \* 当庭自愿认罪
     <<36864, 36180, 20840, 37096, 25439, 22833>>,    \* 退赔全部损失
     <<36864, 36180, 37096, 20998, 25439, 22833>>,    \* 退赔部分损失
     <<21462, 24471, 35845, 35299>>,    \* 取得谅解
     <<21069, 31185>>,    \* 前科
     <<32047, 29359>>}    \* 累犯

IsNumberChar(c) == c \in 48..57 \/ c = 46    \* [\d\.]

\* the longest run of [\d\.] characters of f from position p on
RECURSIVE NumberRun(_, _)
NumberRun(f, p) ==
    IF p <= Len(f) /\ IsNumberChar(f[p]) THEN <<f[p]>> \o NumberRun(f, p + 1)
    ELSE <<>>

\* the pattern (诈骗金额[既未]遂)([\d\.]+)<unit> matches f at position p
AmountMatchAt(f, p, unit) ==
    LET run == NumberRun(f, p + 6)
    IN  /\ p + 5 <= Len(f)
        /\ SubSeq(f, p, p + 5) \in {PrefixAmountDone, PrefixAmountAttempt}
        /\ run # <<>>
        /\ StartsWith(SubSeq(f, p + 6 + Len(run), Len(f)), unit)

\* re.search of that pattern: None, or the two groups of the leftmost match
AmountSearch(f, unit) ==
    LET found == {p \in 1..Len(f) : AmountMatchAt(f, p, unit)}
    IN  IF found = {} THEN None
        ELSE LET p == CHOOSE q \in found : \A r \in found : q <= r
             IN  Some([prefix |-> SubSeq(f, p, p + 5), number |-> NumberRun(f, p + 6)])

\* the digits of s read as a decimal integer
RECURSIVE DigitsValue(_)
DigitsValue(s) ==
    IF s = <<>> THEN 0 ELSE 10 * DigitsValue(SubSeq(s, 1, Len(s) - 1)) + (s[Len(s)] - 48)

RECURSIVE Pow10(_)
Pow10(k) == IF k = 0 THEN 1 ELSE 10 * Pow10(k - 1)

\* float(s) for s of digits and dots: None where float raises ValueError
ParseFloat(s) ==
    LET dots == {i \in 1..Len(s) : s[i] = 46}
    IN  IF Cardinality(dots) > 1 \/ Len(s) = Cardinality(dots) THEN None
        ELSE IF dots = {} THEN Some(FromInt(DigitsValue(s)))
        ELSE LET d == CHOOSE i \in dots : TRUE
                 whole == SubSeq(s, 1, d - 1)
                 frac == SubSeq(s, d + 1, Len(s))
             IN  Some(Rat(DigitsValue(whole) * Pow10(Len(frac)) + DigitsValue(frac),
                          Pow10(Len(frac))))

\* str(n) for n >= 0
RECURSIVE Digits(_)
Digits(n) == IF n < 10 THEN <<48 + n>> ELSE Digits(n \div 10) \o <<48 + (n % 10)>>

\* f"{x:.2f}" for x >= 0
Format2f(x) ==
    LET cents == RoundHalfEven(x.n * 100, x.d)
    IN  Digits(cents \div 100) \o <<46, 48 + ((cents % 100) \div 10), 48 + (cents % 10)>>

\* branch 3 of the loop: an amount tag rewritten in yuan with two decimals,
\* or kept as it is when the pattern or float() fails
NormalizeAmount(f) ==
    LET m_yuan == AmountSearch(f, Yuan)
        m_wan == AmountSearch(f, WanYuan)
        m == IF ~IsNone(m_wan) THEN m_wan ELSE m_yuan
        parsed == IF IsNone(m) THEN None ELSE ParseFloat(Val(m).number)
        amount_val == IF IsNone(parsed) THEN None
                      ELSE IF ~IsNone(m_wan) THEN Some(RatMul(Val(parsed), FromInt(10000)))
                      ELSE parsed
    IN  IF ~IsNone(amount_val)
        THEN Val(m).prefix \o Format2f(Val(amount_val)) \o Yuan
        ELSE f

\* the for loop over raw_factors from element i on
RECURSIVE PostprocessLoop(_, _, _, _, _)
PostprocessLoop(raw_factors, i, cleaned, has_count, has_multi) ==
    IF i > Len(raw_factors) THEN cleaned
    ELSE LET f == Strip(raw_factors[i])
         IN  IF f \in allowed_exact
             THEN PostprocessLoop(raw_factors, i + 1, Append(cleaned, f),
                                  has_count, has_multi)
             ELSE IF StartsWith(f, PrefixFraudCount)
             THEN IF ~has_count
                  THEN PostprocessLoop(raw_factors, i + 1, Append(cleaned, f),
                                       TRUE, has_multi)
                  ELSE PostprocessLoop(raw_factors, i + 1, cleaned,
                                       has_count, has_multi)
             ELSE IF f = TagMultiFraud
             THEN IF ~has_count /\ ~has_multi
                  THEN PostprocessLoop(raw_factors, i + 1, Append(cleaned, f),
                                       has_count, TRUE)
                  ELSE PostprocessLoop(raw_factors, i + 1, cleaned,
                                       has_count, has_multi)
             ELSE IF StartsWith(f, PrefixAmountDone) \/ StartsWith(f, PrefixAmountAttempt)
             THEN PostprocessLoop(raw_factors, i + 1,
                                  Append(cleaned, NormalizeAmount(f)),
                                  has_count, has_multi)
             ELSE PostprocessLoop(raw_factors, i + 1, Append(cleaned, f),
                                  has_count, has_multi)

\* lines 221-310, for a list of strings
_postprocess_fraud_factors(raw_factors) ==
    LET cleaned == PostprocessLoop(raw_factors, 1, <<>>, FALSE, FALSE)
        Has(tag) == \E i \in 1..Len(cleaned) : cleaned[i] = tag
    IN  IF Has(TagRecidivist) /\ Has(TagPriorRecord)
        THEN Return(SelectSeq(cleaned, LAMBDA x : x # TagPriorRecord))
        ELSE Return(cleaned)

MaxTags == 3        \* longest list of tags

\* tags of a Task-1 answer: 诈骗次数3次, 诈骗次数5次, 多次诈骗, 多次诈骗 followed
\* by a space, 累犯, 前科, 诈骗金额既遂3万元, 诈骗金额未遂1.5万元, and a tag the
\* function does not know (无)
FraudTags ==
    {PrefixFraudCount \o <<51, 27425>>, PrefixFraudCount \o <<53, 27425>>,
     TagMultiFraud, TagMultiFraud \o <<32>>, TagRecidivist, TagPriorRecord,
     PrefixAmountDone \o <<51>> \o WanYuan,
     PrefixAmountAttempt \o <<49, 46, 53>> \o WanYuan,
     <<26080>>}

InitTags ==
    /\ call = ""
    /\ args \in [raw_factors : SeqUpTo(FraudTags, MaxTags)]
    /\ ret = <<>>

Call__postprocess_fraud_factors ==
    /\ call = ""
    /\ call' = "_postprocess_fraud_factors"
    /\ ret' = _postprocess_fraud_factors(args.raw_factors)
    /\ UNCHANGED args

NextTags == Call__postprocess_fraud_factors

SpecTags == InitTags /\ [][NextTags]_vars

IsCountTag(tag) == StartsWith(tag, PrefixFraudCount)

\* at most one 诈骗次数 tag is returned
OneCountTag ==
    call = "_postprocess_fraud_factors" =>
        Cardinality({i \in 1..Len(ret.value) : IsCountTag(ret.value[i])}) <= 1

\* 前科 is not returned together with 累犯
NoPriorRecordWithRecidivist ==
    call = "_postprocess_fraud_factors" =>
        ~(/\ \E i \in 1..Len(ret.value) : ret.value[i] = TagRecidivist
          /\ \E i \in 1..Len(ret.value) : ret.value[i] = TagPriorRecord)

\* C29: _postprocess_fraud_factors never returns a list that holds both a
\* tag starting with 诈骗次数 and the tag 多次诈骗, whatever the order of the
\* tags in its input; it keeps at most one 诈骗次数 tag, and it removes 前科
\* when 累犯 and 前科 are both present.
C29_NoDuplicateCountTags ==
    call = "_postprocess_fraud_factors" =>
        /\ ~(/\ \E i \in 1..Len(ret.value) : IsCountTag(ret.value[i])
             /\ \E i \in 1..Len(ret.value) : ret.value[i] = TagMultiFraud)
        /\ OneCountTag
        /\ NoPriorRecordWithRecidivist

-----------------------------------------------------------------------------
(* The `constrained` flag of the three src/1124 variants *)

\* C30: in every variant of calculate_layered_sentence_with_constraints
\* (src/1124/cal.py, cal_gysh.py, cal_zp.py) the returned `constrained` is
\* true exactly when the 1-month floor replaced the computed value, and
\* false when final_months is the unclamped result of the two tiers.
C30_ConstrainedIffClamped ==
    call \in WithConstraints =>
        (ret.constrained <=> RatLt(ret.unrounded, FromInt(1)))

====
